---- MODULE Spec2Model ----
(***************************************************************************)
(* Loto7 prediction engine: the filter predicate set, the candidate        *)
(* generator, the ranking and draw assembly, and the draw record, as state *)
(* machines over the fields of PredictionService / StatisticalAnalyzer and *)
(* the locals of the handler that is running.                              *)
(*                                                                         *)
(* Python values: a list or tuple is a sequence, a set is a set, a dict is *)
(* a record, Optional[x] is None_ or Some(x).  Display strings are         *)
(* sequences of ASCII tokens ("dai" for the ordinal prefix, "kai" for the  *)
(* draw counter, "kouho" for the candidate label, decimal digits "0".."9").*)
(***************************************************************************)
EXTENDS Integers, Sequences, FiniteSets, TLC

VARIABLES
    previous_draw_numbers,  \* PredictionService.previous_draw_numbers (set)
    sum_min,                \* PredictionService.sum_min
    sum_max,                \* PredictionService.sum_max
    config,                 \* FilterConfig weights shared by service and analyzer
    historical_stats,       \* StatisticalAnalyzer.historical_stats
    recent_patterns,        \* StatisticalAnalyzer.recent_patterns
    pc,                     \* position of the running handler
    count,                  \* generate_predictions: argument
    max_attempts,           \* generate_predictions: argument
    candidates,             \* generate_predictions: local set of accepted tuples
    attempts,               \* generate_predictions: local counter
    combo,                  \* generate_predictions: the tuple sampled last
    args,                   \* arguments of the other handlers
    ret,                    \* value returned by the handler that ran last
    data_file               \* content of the file at DataService.data_file_path

vars == <<previous_draw_numbers, sum_min, sum_max, config, historical_stats,
          recent_patterns, pc, count, max_attempts, candidates, attempts, combo, args, ret,
          data_file>>

service ==
    <<previous_draw_numbers, sum_min, sum_max, config, historical_stats,
      recent_patterns>>

genLocals == <<count, max_attempts, candidates, attempts, combo>>

-----------------------------------------------------------------------------
(* Bounds of the model                                                     *)

MaxCount == 3

MaxAttempts == 4

-----------------------------------------------------------------------------
(* Python helpers                                                          *)

None_ == [isNone |-> TRUE]

Some(v) == [isNone |-> FALSE, value |-> v]

Range(s) == {s[i] : i \in DOMAIN s}

DigitChars == <<"0", "1", "2", "3", "4", "5", "6", "7", "8", "9">>

\* str(n) for n >= 0
RECURSIVE Str(_)
Str(n) ==
    IF n < 10 THEN <<DigitChars[n + 1]>>
    ELSE Str(n \div 10) \o <<DigitChars[(n % 10) + 1]>>

RECURSIVE SumSeq(_)
SumSeq(s) == IF s = <<>> THEN 0 ELSE Head(s) + SumSeq(Tail(s))

RECURSIVE InsertAsc(_, _)
InsertAsc(x, s) ==
    IF s = <<>> THEN <<x>>
    ELSE IF x < Head(s) THEN <<x>> \o s
    ELSE <<Head(s)>> \o InsertAsc(x, Tail(s))

\* mutant: the sample is kept in the order it was drawn
Sorted_Unsorted(s) == s

\* sorted(s): ascending, built by stable insertion from the right
RECURSIVE Sorted(_)
Sorted(s) == IF s = <<>> THEN <<>> ELSE InsertAsc(Head(s), Sorted(Tail(s)))

Reverse(s) == [i \in 1..Len(s) |-> s[Len(s) + 1 - i]]

IsAscending(s) == \A i \in 1..(Len(s) - 1) : s[i] < s[i + 1]

-----------------------------------------------------------------------------
(* Inputs: the combinations the random source may produce, the previous    *)
(* draws and the sum ranges a service may be built with                    *)

all_numbers == 1..37

SampleCombos ==
    { <<3, 4, 13, 16, 18, 25, 36>>,     \* passes all, no overlap with Draw649
      <<1, 7, 10, 11, 16, 25, 30>>,     \* passes all, sum 100
      <<9, 16, 25, 27, 29, 30, 34>>,    \* passes all, sum 170
      <<5, 7, 12, 13, 19, 24, 36>>,     \* passes all, overlap 1 with Draw649
      <<3, 4, 6, 11, 19, 20, 36>>,      \* sum 99
      <<4, 17, 19, 28, 32, 35, 36>>,    \* sum 171
      <<1, 12, 15, 17, 19, 32, 36>>,    \* no consecutive pair
      <<5, 7, 8, 11, 26, 34, 36>>,      \* zone3: nothing in 13..25
      <<8, 9, 10, 18, 19, 20, 27>>,     \* zone4: nothing in 28..37
      <<5, 6, 16, 18, 23, 30, 32>>,     \* 2 odd numbers
      <<6, 7, 10, 17, 22, 27, 31>>,     \* last digit 7 three times
      <<2, 5, 10, 23, 30, 31, 36>>,     \* overlap 2 with Draw649 (bonus 2, main 23)
      <<3, 4, 15, 18, 26, 36, 37>>,     \* overlap 2 with Draw649 (main 26, 37)
      <<1, 8, 10, 14, 25, 33, 35>>,     \* no consecutive pair, overlap 2
      <<1, 2, 3, 4, 5, 6, 7>> }         \* several filters fail

Rotate(s) == Tail(s) \o <<Head(s)>>

\* random.sample(all_numbers, 7): 7 distinct numbers in an arbitrary order
RandomSamples ==
    SampleCombos \cup {Reverse(c) : c \in SampleCombos}
                 \cup {Rotate(c) : c \in SampleCombos}

Draw649 ==
    [id |-> <<"dai", "6", "4", "9", "kai">>, date |-> "2024-10-25",
     main |-> <<12, 22, 23, 26, 33, 35, 37>>, bonus |-> <<2, 21>>,
     evaluation |-> None_]

Draw650 ==
    [id |-> <<"dai", "6", "5", "0", "kai">>, date |-> "2024-10-31",
     main |-> <<1, 8, 10, 14, 25, 33, 35>>, bonus |-> <<12, 21>>,
     evaluation |-> None_]

Draw648 ==
    [id |-> <<"dai", "6", "4", "8", "kai">>, date |-> "2024-10-18",
     main |-> <<3, 4, 13, 16, 25, 35, 36>>, bonus |-> <<7, 30>>,
     evaluation |-> None_]

PreviousDraws == {None_, Some(Draw649)}

\* stored draws, most recent first
Histories == {<<>>, <<Draw650, Draw649, Draw648>>}

DefaultConfig ==
    [continuous_max |-> 1, zone3_required |-> TRUE, zone4_required |-> TRUE,
     odd_even_balance |-> <<3, 4>>, last_digit_max_duplicate |-> 2,
     pull_max |-> 1,
     sum_min |-> 100, sum_max |-> 170,
     continuous_weight |-> 10, zone3_weight |-> 15, zone4_weight |-> 15,
     odd_even_weight |-> 10, sum_weight |-> 15, last_digit_weight |-> 10,
     pull_weight |-> 10, frequency_weight |-> 15]

NarrowConfig ==
    [DefaultConfig EXCEPT !.sum_min = 116, !.sum_max = 169, !.sum_weight = 30]

Configs == {None_, Some(NarrowConfig)}

-----------------------------------------------------------------------------
(* Filter predicate set                                                    *)

\* mutant: the number of consecutive pairs is held against continuous_max
_has_continuous_AtMostMax(c) ==
    LET pairs == {i \in 1..(Len(c) - 1) : c[i] + 1 = c[i + 1]}
    IN  pairs # {} /\ Cardinality(pairs) <= config.continuous_max

_has_continuous(c) == \E i \in 1..(Len(c) - 1) : c[i] + 1 = c[i + 1]

\* mutant: the middle zone is not looked at
_check_zone3_NoMid(c) ==
    LET low  == \E i \in DOMAIN c : 1 <= c[i] /\ c[i] <= 12
        high == \E i \in DOMAIN c : 26 <= c[i] /\ c[i] <= 37
    IN  low /\ high

_check_zone3(c) ==
    LET low  == \E i \in DOMAIN c : 1 <= c[i] /\ c[i] <= 12
        mid  == \E i \in DOMAIN c : 13 <= c[i] /\ c[i] <= 25
        high == \E i \in DOMAIN c : 26 <= c[i] /\ c[i] <= 37
    IN  low /\ mid /\ high

_check_zone4(c) ==
    LET a == \E i \in DOMAIN c : 1 <= c[i] /\ c[i] <= 9
        b == \E i \in DOMAIN c : 10 <= c[i] /\ c[i] <= 18
        cc == \E i \in DOMAIN c : 19 <= c[i] /\ c[i] <= 27
        d == \E i \in DOMAIN c : 28 <= c[i] /\ c[i] <= 37
    IN  a /\ b /\ cc /\ d

\* mutant: the number in first place is not counted
OddCount_SkipFirst(c) == Cardinality({i \in DOMAIN c \ {1} : c[i] % 2 # 0})

OddCount(c) == Cardinality({i \in DOMAIN c : c[i] % 2 # 0})

\* mutant: the bounds come from the configuration
_check_odd_even_Configured(c) ==
    /\ config.odd_even_balance[1] <= OddCount(c)
    /\ OddCount(c) <= config.odd_even_balance[2]

_check_odd_even(c) == OddCount(c) \in {3, 4}

\* mutant: the bounds of the range are excluded
_check_sum_Exclusive(c) ==
    LET total == SumSeq(c)
    IN  sum_min < total /\ total < sum_max

_check_sum(c) ==
    LET total == SumSeq(c)
    IN  sum_min <= total /\ total <= sum_max

\* Counter(n % 10 for n in combo)
LastDigitCounts(c) ==
    [d \in {c[i] % 10 : i \in DOMAIN c} |->
        Cardinality({i \in DOMAIN c : c[i] % 10 = d})]

_check_last_digits(c) ==
    LET counts == LastDigitCounts(c)
    IN  \A d \in DOMAIN counts : counts[d] < 3

PullCount(c) == Cardinality(Range(c) \cap previous_draw_numbers)

\* mutant: an overlap of 2 is still accepted
_check_pull_UpToTwo(c) ==
    IF previous_draw_numbers = {} THEN TRUE
    ELSE PullCount(c) \in {0, 1, 2}

_check_pull(c) ==
    IF previous_draw_numbers = {} THEN TRUE
    ELSE PullCount(c) \in {0, 1}

\* mutant: the pull filter is left out of the list
_apply_filters_NoPull(c) ==
    /\ _has_continuous(c)
    /\ _check_zone3(c)
    /\ _check_zone4(c)
    /\ _check_odd_even(c)
    /\ _check_sum(c)
    /\ _check_last_digits(c)

_apply_filters(c) ==
    /\ _has_continuous(c)
    /\ _check_zone3(c)
    /\ _check_zone4(c)
    /\ _check_odd_even(c)
    /\ _check_sum(c)
    /\ _check_last_digits(c)
    /\ _check_pull(c)

-----------------------------------------------------------------------------
(* Exact arithmetic for the float-valued scores: a score is a fraction     *)
(* [n, d] in lowest terms, d > 0                                           *)

RECURSIVE GCD(_, _)
GCD(a, b) == IF b = 0 THEN a ELSE GCD(b, a % b)

AbsInt(x) == IF x < 0 THEN -x ELSE x

Rat(n, d) ==
    LET g == GCD(AbsInt(n), d)
    IN  [n |-> n \div g, d |-> d \div g]

RInt(k) == [n |-> k, d |-> 1]

RAdd(a, b) == Rat(a.n * b.d + b.n * a.d, a.d * b.d)

RSub(a, b) == Rat(a.n * b.d - b.n * a.d, a.d * b.d)

RMul(a, b) == Rat(a.n * b.n, a.d * b.d)

RDivInt(a, k) == Rat(a.n, a.d * k)

RLe(a, b) == a.n * b.d <= b.n * a.d

RLt(a, b) == a.n * b.d < b.n * a.d

RMin(a, b) == IF RLe(a, b) THEN a ELSE b

RMax(a, b) == IF RLe(a, b) THEN b ELSE a

RAbs(a) == [n |-> AbsInt(a.n), d |-> a.d]

\* mutant: the digits after the second decimal are cut off
Round2_Truncate(a) == Rat((100 * a.n) \div a.d, 100)

\* round(x, 2) for x >= 0: the nearest multiple of 1/100, a tie going to the
\* even multiple
Round2(a) ==
    LET x == 100 * a.n
        q == x \div a.d
        r == x % a.d
        k == IF 2 * r > a.d THEN q + 1
             ELSE IF 2 * r < a.d THEN q
             ELSE IF q % 2 = 0 THEN q ELSE q + 1
    IN  Rat(k, 100)

\* the nearest multiple of 1/10, a tie going to the even multiple:
\* round(x, 1) and the format :.1f for x >= 0
Round1(a) ==
    LET x == 10 * a.n
        q == x \div a.d
        r == x % a.d
        k == IF 2 * r > a.d THEN q + 1
             ELSE IF 2 * r < a.d THEN q
             ELSE IF q % 2 = 0 THEN q ELSE q + 1
    IN  Rat(k, 10)

RECURSIVE RSumSeq(_)
RSumSeq(s) == IF s = <<>> THEN RInt(0) ELSE RAdd(Head(s), RSumSeq(Tail(s)))

-----------------------------------------------------------------------------
(* StatisticalAnalyzer.analyze_historical_data                             *)

OVERDUE_SCORE_MULTIPLIER == 50

HOT_NUMBER_TARGET_PERCENTAGE == 40

OVERDUE_NUMBER_TARGET_PERCENTAGE == 20

BALANCED_NUMBER_WEIGHT == Rat(4, 10)

NEUTRAL_FREQUENCY_SCORE == RInt(50)

MinInt(a, b) == IF a <= b THEN a ELSE b

\* how many entries of the list equal num
Occurrences(num, numbers) ==
    Cardinality({k \in DOMAIN numbers : numbers[k] = num})

\* the scan of lines 80-90; draws[i] has index i - 1 in the code
FrequencyOf(num, draws) ==
    SumSeq([i \in 1..Len(draws) |-> Occurrences(num, draws[i].main)])

RecentFrequencyOf(num, draws, recent_window) ==
    SumSeq([i \in 1..Len(draws) |->
                IF i - 1 < recent_window
                THEN Occurrences(num, draws[i].main) ELSE 0])

\* mutant: the index is overwritten at every later sight
LastAppearanceOf_Overwritten(num, draws) ==
    LET seen == {i \in 1..Len(draws) : Occurrences(num, draws[i].main) > 0}
    IN  IF seen = {} THEN None_
        ELSE Some((CHOOSE i \in seen : \A j \in seen : j <= i) - 1)

LastAppearanceOf(num, draws) ==
    LET seen == {i \in 1..Len(draws) : Occurrences(num, draws[i].main) > 0}
    IN  IF seen = {} THEN None_
        ELSE Some((CHOOSE i \in seen : \A j \in seen : i <= j) - 1)

\* StatisticalMetrics(number=num)
StatisticalMetrics(num) ==
    [number |-> num, frequency |-> 0, recent_frequency |-> 0,
     last_appearance |-> None_, hot_score |-> RInt(0), cold_score |-> RInt(0),
     overdue_score |-> RInt(0)]

\* mutant: metrics that exist already are kept
InitialMetrics_Keep(stats) ==
    IF stats = <<>> THEN [num \in 1..37 |-> StatisticalMetrics(num)] ELSE stats

\* lines 75-76: every key 1..37 of self.historical_stats is assigned a new
\* StatisticalMetrics, whatever the dict held
InitialMetrics(stats) == [num \in 1..37 |-> StatisticalMetrics(num)]

\* lines 80-90: the scan adds to the metrics it finds
ScanDraws(stats, draws, recent_window) ==
    [num \in 1..37 |->
        [stats[num] EXCEPT
            !.frequency = @ + FrequencyOf(num, draws),
            !.recent_frequency = @ + RecentFrequencyOf(num, draws, recent_window),
            !.last_appearance =
                IF @.isNone THEN LastAppearanceOf(num, draws) ELSE @]]

\* mutant: a number that never appeared is not overdue at all
OverdueScore_NeverIsZero(m, total_draws) ==
    IF ~m.last_appearance.isNone
    THEN LET f == IF m.frequency > 0 THEN m.frequency ELSE 1
         IN  RMin(RInt(100),
                  Rat(m.last_appearance.value * f * OVERDUE_SCORE_MULTIPLIER,
                      total_draws))
    ELSE RInt(0)

\* lines 106-111; expected_gap = total_draws / f is positive, and
\* actual_gap / expected_gap * 50 = last_appearance * f * 50 / total_draws
OverdueScore(m, total_draws) ==
    IF ~m.last_appearance.isNone
    THEN LET f == IF m.frequency > 0 THEN m.frequency ELSE 1
         IN  RMin(RInt(100),
                  Rat(m.last_appearance.value * f * OVERDUE_SCORE_MULTIPLIER,
                      total_draws))
    ELSE RInt(100)

\* the value of self.historical_stats after
\* analyze_historical_data(draws, recent_window) on an analyzer that held stats
analyze_historical_data(stats, draws, recent_window) ==
    LET scanned == ScanDraws(InitialMetrics(stats), draws, recent_window)
        total_draws == Len(draws)
        freq_total == SumSeq([num \in 1..37 |-> scanned[num].frequency])
        \* avg_frequency = freq_total / 37
        hot(m) ==
            Rat(m.recent_frequency * 100, MinInt(recent_window, total_draws))
        cold(m) ==
            IF freq_total > 0
            THEN RMax(RInt(0), Rat((freq_total - 37 * m.frequency) * 100,
                                   freq_total))
            ELSE RInt(0)
    IN  IF draws # <<>>
        THEN [num \in 1..37 |->
                [scanned[num] EXCEPT
                    !.hot_score = hot(scanned[num]),
                    !.cold_score = cold(scanned[num]),
                    !.overdue_score = OverdueScore(scanned[num], total_draws)]]
        ELSE scanned

-----------------------------------------------------------------------------
(* StatisticalAnalyzer.score_combination                                   *)

\* mutant: the frequency component is always applied
HasStatistics_Always == TRUE

\* if self.historical_stats
HasStatistics == historical_stats # <<>>

_calculate_frequency_score(c) ==
    IF historical_stats = <<>> THEN NEUTRAL_FREQUENCY_SCORE
    ELSE
    LET hot_avg ==
            RDivInt(RSumSeq([i \in DOMAIN c |->
                                historical_stats[c[i]].hot_score]), 7)
        cold_avg ==
            RDivInt(RSumSeq([i \in DOMAIN c |->
                                historical_stats[c[i]].cold_score]), 7)
        overdue_avg ==
            RDivInt(RSumSeq([i \in DOMAIN c |->
                                historical_stats[c[i]].overdue_score]), 7)
        hot_part ==
            RMul(RMin(RDivInt(hot_avg, HOT_NUMBER_TARGET_PERCENTAGE), RInt(1)),
                 RInt(HOT_NUMBER_TARGET_PERCENTAGE))
        cold_part ==
            RMul(RSub(RInt(100), RAbs(RSub(NEUTRAL_FREQUENCY_SCORE, cold_avg))),
                 BALANCED_NUMBER_WEIGHT)
        overdue_part ==
            RMul(RMin(RDivInt(overdue_avg, OVERDUE_NUMBER_TARGET_PERCENTAGE),
                      RInt(1)),
                 RInt(OVERDUE_NUMBER_TARGET_PERCENTAGE))
        balance_score == RAdd(RAdd(hot_part, cold_part), overdue_part)
    IN  RMin(RInt(100), balance_score)

FilterNames ==
    <<"continuous", "zone3", "zone4", "odd_even", "sum", "last_digits", "pull">>

\* self.config.<name>_weight
WeightOf(name) ==
    CASE name = "continuous" -> config.continuous_weight
      [] name = "zone3" -> config.zone3_weight
      [] name = "zone4" -> config.zone4_weight
      [] name = "odd_even" -> config.odd_even_weight
      [] name = "sum" -> config.sum_weight
      [] name = "last_digits" -> config.last_digit_weight
      [] name = "pull" -> config.pull_weight
      [] name = "frequency" -> config.frequency_weight

score_combination(c, evaluation) ==
    LET filter_score(name) == IF evaluation[name].pass THEN 100 ELSE 0
        has_stats == HasStatistics
        frequency_score == _calculate_frequency_score(c)
        scores ==
            [name \in Range(FilterNames)
                      \cup (IF has_stats THEN {"frequency"} ELSE {}) |->
                IF name = "frequency" THEN frequency_score
                ELSE RInt(filter_score(name))]
        weighted_sum ==
            RAdd(RInt(SumSeq([i \in DOMAIN FilterNames |->
                        filter_score(FilterNames[i]) * WeightOf(FilterNames[i])])),
                 IF has_stats
                 THEN RMul(frequency_score, RInt(config.frequency_weight))
                 ELSE RInt(0))
        total_weight ==
            SumSeq([i \in DOMAIN FilterNames |-> WeightOf(FilterNames[i])])
            + (IF has_stats THEN config.frequency_weight ELSE 0)
        final_score == IF total_weight > 0
                       THEN RDivInt(weighted_sum, total_weight)
                       ELSE RInt(0)
    IN  [scores |-> scores,
         final_score |-> Round2(final_score),
         weights |->
            [name \in Range(FilterNames) \cup {"frequency"} |->
                IF name = "frequency"
                THEN (IF has_stats THEN config.frequency_weight ELSE 0)
                ELSE WeightOf(name)]]

-----------------------------------------------------------------------------
(* PredictionService.__init__ and set_previous_draw                        *)

NumbersOf(draw) == Range(draw.main) \cup Range(draw.bonus)

PrevNumbersInit(previous_draw) ==
    IF previous_draw.isNone THEN {} ELSE NumbersOf(previous_draw.value)

ConfigOrDefault(cfg) == IF cfg.isNone THEN DefaultConfig ELSE cfg.value

Blank == <<>>

\* the data file: absent, not parseable as JSON, or {'draws': [...]}
FileMissing == [kind |-> "missing"]

FileCorrupt == [kind |-> "corrupt"]

FileJSON(draws) == [kind |-> "json", draws |-> draws]

IdleFrame ==
    /\ pc = "idle"
    /\ count = 0
    /\ max_attempts = 0
    /\ candidates = {}
    /\ attempts = 0
    /\ combo = Blank
    /\ args = Blank
    /\ ret = Blank

\* PredictionService(previous_draw, config, historical_draws)
PredictionService_init(previous_draw, cfg, historical_draws) ==
    /\ previous_draw_numbers = PrevNumbersInit(previous_draw)
    /\ config = ConfigOrDefault(cfg)
    /\ sum_min = ConfigOrDefault(cfg).sum_min
    /\ sum_max = ConfigOrDefault(cfg).sum_max
    /\ historical_stats =
            IF historical_draws # <<>>
            THEN analyze_historical_data(<<>>, historical_draws, 10)
            ELSE <<>>
    /\ recent_patterns = <<>>

ServiceInit ==
    \E previous_draw \in PreviousDraws, cfg \in Configs,
       historical_draws \in Histories :
        PredictionService_init(previous_draw, cfg, historical_draws)

set_previous_draw ==
    /\ pc = "idle"
    /\ \E draw \in {Draw649, Draw650} :
        previous_draw_numbers' = NumbersOf(draw)
    /\ UNCHANGED <<data_file, sum_min, sum_max, config, historical_stats,
                   recent_patterns, pc, genLocals,
                   args, ret>>

\* the caller takes the returned value; the frame is gone
Return ==
    /\ pc = "done"
    /\ pc' = "idle"
    /\ count' = 0
    /\ max_attempts' = 0
    /\ candidates' = {}
    /\ attempts' = 0
    /\ combo' = Blank
    /\ args' = Blank
    /\ ret' = Blank
    /\ UNCHANGED <<data_file, service>>

-----------------------------------------------------------------------------
(* PredictionService.generate_predictions                                  *)

generate_predictions_call ==
    /\ pc = "idle"
    /\ \E n \in 0..MaxCount, m \in 0..MaxAttempts :
        /\ count' = n
        /\ max_attempts' = m
    /\ candidates' = {}
    /\ attempts' = 0
    /\ pc' = "gen_loop"
    /\ args' = [handler |-> "generate_predictions"]
    /\ UNCHANGED <<data_file, service, combo, ret>>

\* mutant: the attempt budget is compared with <=
LoopCondition_OffByOne ==
    Cardinality(candidates) < count /\ attempts <= max_attempts

\* while len(candidates) < count and attempts < max_attempts
LoopCondition == Cardinality(candidates) < count /\ attempts < max_attempts

\* tuple(sorted(random.sample(all_numbers, 7))) over the samples of the model
SortedSamples == {Sorted(sample) : sample \in RandomSamples}

generate_predictions_sample ==
    /\ pc = "gen_loop"
    /\ LoopCondition
    /\ attempts' = attempts + 1
    /\ \E c \in SortedSamples :
        /\ combo' = c
        /\ candidates' = IF _apply_filters(c) THEN candidates \cup {c}
                         ELSE candidates
    /\ UNCHANGED <<data_file, service, pc, count, max_attempts, args, ret>>

\* list(candidates): the set's elements in an iteration order the caller
\* cannot rely on
ListsOf(S) ==
    {s \in [1..Cardinality(S) -> S] : Range(s) = S}

generate_predictions_return ==
    /\ pc = "gen_loop"
    /\ ~LoopCondition
    /\ \E l \in ListsOf(candidates) : ret' = l
    /\ pc' = "done"
    /\ UNCHANGED <<data_file, service, genLocals, args>>

-----------------------------------------------------------------------------
(* PredictionService.evaluate_combination                                  *)

CountIn(c, lo, hi) == Cardinality({i \in DOMAIN c : lo <= c[i] /\ c[i] <= hi})

RECURSIVE ConsecutivePairsFrom(_, _)
ConsecutivePairsFrom(c, i) ==
    IF i > Len(c) - 1 THEN <<>>
    ELSE (IF c[i] + 1 = c[i + 1] THEN <<(<<c[i], c[i + 1]>>)>> ELSE <<>>)
         \o ConsecutivePairsFrom(c, i + 1)

MaxOf(S) == CHOOSE m \in S : \A x \in S : x <= m

evaluate_combination(c) ==
    LET odd_count == OddCount(c)
        even_count == 7 - odd_count
        total == SumSeq(c)
        last_digit_counts == LastDigitCounts(c)
        zone3 == [low |-> CountIn(c, 1, 12), mid |-> CountIn(c, 13, 25),
                  high |-> CountIn(c, 26, 37)]
        zone4 == [A |-> CountIn(c, 1, 9), B |-> CountIn(c, 10, 18),
                  C |-> CountIn(c, 19, 27), D |-> CountIn(c, 28, 37)]
        pull_count == IF previous_draw_numbers # {} THEN PullCount(c) ELSE 0
        consecutive_pairs == ConsecutivePairsFrom(c, 1)
    IN  [continuous |-> [has_continuous |-> _has_continuous(c),
                         pairs |-> consecutive_pairs,
                         pass |-> _has_continuous(c)],
         zone3 |-> [distribution |-> zone3,
                    all_zones_covered |-> _check_zone3(c),
                    pass |-> _check_zone3(c)],
         zone4 |-> [distribution |-> zone4,
                    all_zones_covered |-> _check_zone4(c),
                    pass |-> _check_zone4(c)],
         odd_even |-> [odd |-> odd_count, even |-> even_count,
                       balance |-> <<odd_count, even_count>>,
                       pass |-> _check_odd_even(c)],
         sum |-> [total |-> total, range |-> <<sum_min, sum_max>>,
                  in_range |-> (sum_min <= total /\ total <= sum_max),
                  pass |-> _check_sum(c)],
         last_digits |-> [distribution |-> last_digit_counts,
                          max_count |-> MaxOf(Range(last_digit_counts)),
                          pass |-> _check_last_digits(c)],
         pull |-> [count |-> pull_count, valid_range |-> <<0, 1>>,
                   pass |-> _check_pull(c)],
         overall_pass |-> _apply_filters(c)]

\* mutant: intersection_update in place of intersection
evaluate_combination_prev_Update(c) == previous_draw_numbers \cap Range(c)

\* self.previous_draw_numbers after a call: set(combo).intersection(...)
\* builds a new set and the field is not assigned
evaluate_combination_prev(c) == previous_draw_numbers

evaluate_combination_call ==
    /\ pc = "idle"
    /\ \E c \in RandomSamples :
        /\ args' = [handler |-> "evaluate_combination", combo |-> c]
        /\ ret' = evaluate_combination(c)
        /\ previous_draw_numbers' = evaluate_combination_prev(c)
    /\ pc' = "done"
    /\ UNCHANGED <<data_file, sum_min, sum_max, config, historical_stats,
                   recent_patterns, genLocals>>

-----------------------------------------------------------------------------
Init == ServiceInit /\ IdleFrame /\ data_file = FileMissing

Next ==
    \/ set_previous_draw
    \/ generate_predictions_call
    \/ generate_predictions_sample
    \/ generate_predictions_return
    \/ evaluate_combination_call
    \/ Return

Spec == Init /\ [][Next]_vars

\* the running call finishes: the interpreter runs the loop body and the
\* return statement whenever they are enabled
SpecFair ==
    /\ Spec
    /\ WF_vars(generate_predictions_sample)
    /\ WF_vars(generate_predictions_return)

-----------------------------------------------------------------------------
(* Services built with other threshold fields in their FilterConfig        *)

\* every threshold field set to a value that would let every combination
\* through, were it read
LooseThresholds(cfg) ==
    [cfg EXCEPT !.continuous_max = 7, !.zone3_required = FALSE,
                !.zone4_required = FALSE, !.odd_even_balance = <<0, 7>>,
                !.last_digit_max_duplicate = 7, !.pull_max = 7]

PolicyConfigs ==
    {None_, Some(NarrowConfig), Some(LooseThresholds(DefaultConfig)),
     Some(LooseThresholds(NarrowConfig))}

InitPolicy ==
    /\ \E previous_draw \in PreviousDraws, cfg \in PolicyConfigs :
        PredictionService_init(previous_draw, cfg, <<>>)
    /\ IdleFrame
    /\ data_file = FileMissing

NextPolicy ==
    \/ set_previous_draw
    \/ evaluate_combination_call
    \/ Return

SpecPolicy == InitPolicy /\ [][NextPolicy]_vars

-----------------------------------------------------------------------------
(* Loto7Draw: validate, to_dict, from_dict                                 *)

EmptyDict == [k \in {} |-> ""]

\* Python truth value of an Optional[dict]
Truthy(opt) == ~opt.isNone /\ DOMAIN opt.value # {}

AllInRange(s) == \A i \in DOMAIN s : 1 <= s[i] /\ s[i] <= 37

\* mutant: the overlap check between main and bonus is missing
validate_NoOverlapCheck(d) ==
    IF Len(d.main) # 7 THEN FALSE
    ELSE IF ~AllInRange(d.main) THEN FALSE
    ELSE IF Cardinality(Range(d.main)) # 7 THEN FALSE
    ELSE IF Len(d.bonus) # 2 THEN FALSE
    ELSE IF ~AllInRange(d.bonus) THEN FALSE
    ELSE IF Cardinality(Range(d.bonus)) # 2 THEN FALSE
    ELSE TRUE

validate(d) ==
    IF Len(d.main) # 7 THEN FALSE
    ELSE IF ~AllInRange(d.main) THEN FALSE
    ELSE IF Cardinality(Range(d.main)) # 7 THEN FALSE
    ELSE IF Len(d.bonus) # 2 THEN FALSE
    ELSE IF ~AllInRange(d.bonus) THEN FALSE
    ELSE IF Cardinality(Range(d.bonus)) # 2 THEN FALSE
    ELSE IF Range(d.main) \cap Range(d.bonus) # {} THEN FALSE
    ELSE TRUE

to_dict(d) ==
    LET result == [id |-> d.id, date |-> d.date, main |-> d.main,
                   bonus |-> d.bonus]
    IN  IF Truthy(d.evaluation)
        THEN [k \in DOMAIN result \cup {"evaluation"} |->
                IF k = "evaluation" THEN d.evaluation ELSE result[k]]
        ELSE result

\* data.get('evaluation') is None when the key is absent
from_dict(data) ==
    [id |-> data.id, date |-> data.date, main |-> data.main,
     bonus |-> data.bonus,
     evaluation |-> IF "evaluation" \in DOMAIN data THEN data.evaluation
                    ELSE None_]

SampleMains ==
    { <<1, 8, 10, 14, 25, 33, 35>>,
      <<1, 8, 10, 14, 25, 33>>,
      <<1, 8, 10, 14, 25, 33, 35, 36>>,
      <<0, 8, 10, 14, 25, 33, 35>>,
      <<1, 8, 10, 14, 25, 33, 38>>,
      <<1, 8, 10, 10, 25, 33, 35>>,
      <<37, 2, 3, 4, 5, 6, 1>> }

SampleBonuses ==
    { <<12, 21>>, <<21, 12>>, <<12>>, <<12, 21, 22>>, <<12, 12>>, <<8, 21>>,
      <<0, 21>>, <<12, 38>>, <<36, 37>> }

SampleEvaluations == {None_, Some(EmptyDict), Some([test |-> "data"])}

SampleDraws ==
    [id : {Draw649.id, Draw650.id}, date : {"2024-10-31"},
     main : SampleMains, bonus : SampleBonuses,
     evaluation : SampleEvaluations]

validate_call ==
    /\ pc = "idle"
    /\ \E d \in SampleDraws :
        /\ args' = [handler |-> "validate", draw |-> d]
        /\ ret' = validate(d)
    /\ pc' = "done"
    /\ UNCHANGED <<data_file, service, genLocals>>

to_dict_call ==
    /\ pc = "idle"
    /\ \E d \in SampleDraws :
        /\ args' = [handler |-> "to_dict", draw |-> d]
        /\ ret' = to_dict(d)
    /\ pc' = "serialized"
    /\ UNCHANGED <<data_file, service, genLocals>>

\* the dictionary to_dict returned is read back
from_dict_call ==
    /\ pc = "serialized"
    /\ args' = [handler |-> "from_dict", draw |-> args.draw, data |-> ret]
    /\ ret' = from_dict(ret)
    /\ pc' = "done"
    /\ UNCHANGED <<data_file, service, genLocals>>

\* a JSON number and a JSON string of decimal digits, as json.load and
\* request.get_json hand them over: an int is kept by its decimal
\* numeral, a str by its characters
JInt(n) == [type |-> "int", digits |-> Str(n)]

JStr(chars) == [type |-> "str", digits |-> chars]

\* "01", "08", "10": two digits
TwoDigits(n) == IF n < 10 THEN <<"0">> \o Str(n) ELSE Str(n)

\* dictionaries whose numbers are all integers or all digit strings
JsonDicts ==
    {[id |-> Draw650.id, date |-> "2024-10-31",
      main |-> [i \in 1..7 |-> IF strings THEN JStr(TwoDigits(Draw650.main[i]))
                                ELSE JInt(Draw650.main[i])],
      bonus |-> [i \in 1..2 |-> IF strings THEN JStr(TwoDigits(Draw650.bonus[i]))
                                 ELSE JInt(Draw650.bonus[i])]] :
        strings \in BOOLEAN}

\* from_dict on a dictionary that was parsed from JSON text
from_dict_json_call ==
    /\ pc = "idle"
    /\ \E data \in JsonDicts :
        /\ args' = [handler |-> "from_dict_json", data |-> data]
        /\ ret' = from_dict(data)
    /\ pc' = "done"
    /\ UNCHANGED <<data_file, service, genLocals>>

InitRecord ==
    PredictionService_init(None_, None_, <<>>) /\ IdleFrame /\ data_file = FileMissing

NextRecord ==
    \/ validate_call
    \/ to_dict_call
    \/ from_dict_call
    \/ from_dict_json_call
    \/ Return

SpecRecord == InitRecord /\ [][NextRecord]_vars

-----------------------------------------------------------------------------
(* StatisticalAnalyzer.rank_predictions                                    *)

\* predictions are pairs <<combo, data>>, data = [evaluation, scoring]
ScoreKey(p) == p[2].scoring.value.final_score

\* mutant: an element goes in front of the elements of equal score
RECURSIVE InsertDescending_TiesReversed(_, _)
InsertDescending_TiesReversed(acc, x) ==
    IF acc = <<>> THEN <<x>>
    ELSE IF RLt(ScoreKey(x), ScoreKey(Head(acc)))
         THEN <<Head(acc)>> \o InsertDescending_TiesReversed(Tail(acc), x)
         ELSE <<x>> \o acc

\* mutant: reverse=True is missing, the lowest score comes first
RECURSIVE InsertDescending_Ascending(_, _)
InsertDescending_Ascending(acc, x) ==
    IF acc = <<>> THEN <<x>>
    ELSE IF RLe(ScoreKey(Head(acc)), ScoreKey(x))
         THEN <<Head(acc)>> \o InsertDescending_Ascending(Tail(acc), x)
         ELSE <<x>> \o acc

\* one step of sorted(..., key=final_score, reverse=True): x goes behind
\* every element already placed whose score is not lower
RECURSIVE InsertDescending(_, _)
InsertDescending(acc, x) ==
    IF acc = <<>> THEN <<x>>
    ELSE IF RLe(ScoreKey(x), ScoreKey(Head(acc)))
         THEN <<Head(acc)>> \o InsertDescending(Tail(acc), x)
         ELSE <<x>> \o acc

RECURSIVE SortedDescending(_, _)
SortedDescending(acc, rest) ==
    IF rest = <<>> THEN acc
    ELSE SortedDescending(InsertDescending(acc, Head(rest)), Tail(rest))

HasScoring(p) == ~p[2].scoring.isNone

rank_predictions(predictions) ==
    LET predictions_with_scores == SelectSeq(predictions, HasScoring)
        ranked == SortedDescending(<<>>, predictions_with_scores)
    IN  IF predictions_with_scores = <<>>
        THEN [i \in DOMAIN predictions |->
                [rank |-> i,
                 combination |-> predictions[i][1],
                 score |-> None_,
                 evaluation |-> predictions[i][2].evaluation,
                 scoring |-> None_]]
        ELSE [k \in DOMAIN ranked |->
                [rank |-> k,
                 combination |-> ranked[k][1],
                 score |-> Some(ranked[k][2].scoring.value.final_score),
                 evaluation |-> ranked[k][2].evaluation,
                 scoring |-> ranked[k][2].scoring]]

-----------------------------------------------------------------------------
(* PredictionService.generate_bonus_numbers and create_predicted_draws     *)

RECURSIVE AvailableFrom(_, _)
AvailableFrom(n, main_numbers) ==
    IF n > 37 THEN <<>>
    ELSE (IF n \in Range(main_numbers) THEN <<>> ELSE <<n>>)
         \o AvailableFrom(n + 1, main_numbers)

\* positions random.sample may pick in the list of available numbers, in
\* the order it returns them
SamplePicks == {<<1, 30>>, <<2, 1>>}

\* mutant: the two sampled numbers are returned in the order drawn
generate_bonus_numbers_Unsorted(main_numbers, pick) ==
    LET available_numbers == AvailableFrom(1, main_numbers)
    IN  <<available_numbers[pick[1]], available_numbers[pick[2]]>>

generate_bonus_numbers(main_numbers, pick) ==
    LET available_numbers == AvailableFrom(1, main_numbers)
    IN  Sorted(<<available_numbers[pick[1]], available_numbers[pick[2]]>>)

\* mutant: the position is left out of the name
CandidateId_NoPosition(next_draw_number, position) ==
    <<"dai">> \o Str(next_draw_number) \o <<"kai", " ", "kouho">>

\* the f-string that names a candidate of a draw
CandidateId(next_draw_number, position) ==
    <<"dai">> \o Str(next_draw_number) \o <<"kai", " ", "kouho">>
              \o Str(position)

\* d[key] = value
DictSet(d, key, value) ==
    [k \in DOMAIN d \cup {key} |-> IF k = key THEN value ELSE d[k]]

predictions_with_scores(predictions, include_evaluation, include_scoring) ==
    [i \in DOMAIN predictions |->
        LET c == predictions[i]
            evaluation == IF include_evaluation
                          THEN Some(evaluate_combination(c)) ELSE None_
            scoring == IF include_scoring /\ Truthy(evaluation)
                       THEN Some(score_combination(c, evaluation.value))
                       ELSE None_
        IN  <<c, [evaluation |-> evaluation, scoring |-> scoring]>>]

\* lines 231-251: one record per ranked item, named by its rank
ranked_draws(ranked_predictions, next_draw_number, next_draw_date, picks) ==
    [k \in DOMAIN ranked_predictions |->
        LET item == ranked_predictions[k]
            evaluation ==
                IF Truthy(item.evaluation) /\ Truthy(item.scoring)
                THEN Some(DictSet(item.evaluation.value, "scoring",
                                  item.scoring.value))
                ELSE item.evaluation
        IN  [id |-> CandidateId(next_draw_number, item.rank),
             date |-> next_draw_date,
             main |-> item.combination,
             bonus |-> generate_bonus_numbers(item.combination, picks[k]),
             evaluation |-> evaluation]]

\* mutant: the candidates are numbered from 0, as enumerate counts them
unranked_draws_FromZero(pws, next_draw_number, next_draw_date, picks) ==
    [i \in DOMAIN pws |->
        [id |-> CandidateId(next_draw_number, i - 1),
         date |-> next_draw_date,
         main |-> pws[i][1],
         bonus |-> generate_bonus_numbers(pws[i][1], picks[i]),
         evaluation |-> pws[i][2].evaluation]]

\* lines 254-265: one record per prediction, named by its position; the
\* code's enumerate index i is the index here minus 1
unranked_draws(pws, next_draw_number, next_draw_date, picks) ==
    [i \in DOMAIN pws |->
        [id |-> CandidateId(next_draw_number, i),
         date |-> next_draw_date,
         main |-> pws[i][1],
         bonus |-> generate_bonus_numbers(pws[i][1], picks[i]),
         evaluation |-> pws[i][2].evaluation]]

create_predicted_draws(predictions, next_draw_number, include_evaluation, include_scoring, next_draw_date, picks) ==
    LET pws == predictions_with_scores(predictions, include_evaluation,
                                       include_scoring)
    IN  IF include_scoring
        THEN ranked_draws(rank_predictions(pws), next_draw_number,
                          next_draw_date, picks)
        ELSE unranked_draws(pws, next_draw_number, next_draw_date, picks)

MaxPredictions == 3

SeqsUpTo(S, n) == UNION {[1..k -> S] : k \in 0..n}

AssemblyCombos ==
    { <<3, 4, 13, 16, 18, 25, 36>>, <<1, 7, 10, 11, 16, 25, 30>>,
      <<3, 4, 6, 11, 19, 20, 36>> }

DrawNumbers == {7, 651}

MainLists ==
    RandomSamples \cup {<<31, 32, 33, 34, 35, 36, 37>>,
                        <<1, 1, 1, 1, 1, 1, 1>>}

generate_bonus_numbers_call ==
    /\ pc = "idle"
    /\ \E main_numbers \in MainLists, pick \in SamplePicks :
        /\ args' = [handler |-> "generate_bonus_numbers",
                    main_numbers |-> main_numbers]
        /\ ret' = generate_bonus_numbers(main_numbers, pick)
    /\ pc' = "done"
    /\ UNCHANGED <<data_file, service, genLocals>>

SampleScorings ==
    {None_, Some([final_score |-> RInt(88)]), Some([final_score |-> RInt(95)]),
     Some([final_score |-> Rat(9205, 100)])}

SampleScored ==
    {<<c, [evaluation |-> Some([continuous |-> [pass |-> TRUE]]),
           scoring |-> sc]>> :
        c \in {<<1, 8, 10, 14, 25, 33, 35>>, <<2, 9, 11, 15, 26, 34, 36>>},
        sc \in SampleScorings}

rank_predictions_call ==
    /\ pc = "idle"
    /\ \E predictions \in SeqsUpTo(SampleScored, MaxPredictions) :
        /\ args' = [handler |-> "rank_predictions",
                    predictions |-> predictions]
        /\ ret' = rank_predictions(predictions)
    /\ pc' = "done"
    /\ UNCHANGED <<data_file, service, genLocals>>

create_predicted_draws_call ==
    /\ pc = "idle"
    /\ \E predictions \in SeqsUpTo(AssemblyCombos, MaxPredictions),
          next_draw_number \in DrawNumbers,
          include_evaluation \in BOOLEAN, include_scoring \in BOOLEAN :
        \E picks \in [DOMAIN predictions -> SamplePicks] :
            /\ args' = [handler |-> "create_predicted_draws",
                        predictions |-> predictions,
                        next_draw_number |-> next_draw_number,
                        include_evaluation |-> include_evaluation,
                        include_scoring |-> include_scoring]
            /\ ret' = create_predicted_draws(predictions, next_draw_number,
                            include_evaluation, include_scoring,
                            "2024-11-07", picks)
    /\ pc' = "done"
    /\ UNCHANGED <<data_file, service, genLocals>>

InitAssembly ==
    /\ \/ PredictionService_init(None_, None_, <<>>)
       \/ PredictionService_init(Some(Draw649), None_,
                                 <<Draw650, Draw649, Draw648>>)
       \/ PredictionService_init(Some(Draw649), Some(NarrowConfig), <<>>)
    /\ IdleFrame
    /\ data_file = FileMissing

NextAssembly ==
    \/ generate_bonus_numbers_call
    \/ rank_predictions_call
    \/ create_predicted_draws_call
    \/ Return

SpecAssembly == InitAssembly /\ [][NextAssembly]_vars

-----------------------------------------------------------------------------
(* StatisticalAnalyzer on its own: analyses follow one another on the same *)
(* analyzer, and combinations are scored against whatever it holds         *)

Draw647 ==
    [id |-> <<"dai", "6", "4", "7", "kai">>, date |-> "2024-10-11",
     main |-> <<5, 7, 12, 13, 19, 24, 36>>, bonus |-> <<1, 30>>,
     evaluation |-> None_]

\* number 7 is absent from the 4 most recent draws and present in the 5
\* before them
LongHistory ==
    <<Draw650, Draw649, Draw648, Draw650,
      Draw647, Draw647, Draw647, Draw647, Draw647>>

AnalyzerHistories ==
    {<<>>, <<Draw650>>, <<Draw648, Draw649>>, <<Draw650, Draw649, Draw648>>,
     LongHistory}

RecentWindows == {1, 2, 10}

SkewedConfig ==
    [DefaultConfig EXCEPT
        !.continuous_weight = 1, !.zone3_weight = 2, !.zone4_weight = 3,
        !.odd_even_weight = 5, !.sum_weight = 7, !.last_digit_weight = 11,
        !.pull_weight = 13, !.frequency_weight = 17]

AnalyzerConfigs == Configs \cup {Some(SkewedConfig)}

\* the evaluation argument, as far as score_combination reads it
PassVectors ==
    {[name \in Range(FilterNames) |-> [pass |-> b[name]]] :
        b \in [Range(FilterNames) -> BOOLEAN]}

\* StatisticalAnalyzer(config)
StatisticalAnalyzer_init(cfg) ==
    /\ config = ConfigOrDefault(cfg)
    /\ sum_min = ConfigOrDefault(cfg).sum_min
    /\ sum_max = ConfigOrDefault(cfg).sum_max
    /\ previous_draw_numbers = {}
    /\ historical_stats = <<>>
    /\ recent_patterns = <<>>

analyze_historical_data_call ==
    /\ pc = "idle"
    /\ \E draws \in AnalyzerHistories, recent_window \in RecentWindows :
        /\ args' = [handler |-> "analyze_historical_data",
                    self_historical_stats |-> historical_stats,
                    draws |-> draws, recent_window |-> recent_window]
        /\ historical_stats' =
                analyze_historical_data(historical_stats, draws, recent_window)
    /\ ret' = None_
    /\ pc' = "done"
    /\ UNCHANGED <<data_file, previous_draw_numbers, sum_min, sum_max, config,
                   recent_patterns, genLocals>>

score_combination_call ==
    /\ pc = "idle"
    /\ \E c \in AssemblyCombos, evaluation \in PassVectors :
        /\ args' = [handler |-> "score_combination", combo |-> c,
                    evaluation |-> evaluation]
        /\ ret' = score_combination(c, evaluation)
    /\ pc' = "done"
    /\ UNCHANGED <<data_file, service, genLocals>>

\* s[:n]
Take(s, n) == SubSeq(s, 1, IF n < Len(s) THEN n ELSE Len(s))

\* f'{x:.1f}' for x >= 0
Fixed1(x) ==
    LET tenths == (10 * Round1(x).n) \div Round1(x).d
    IN  Str(tenths \div 10) \o <<".">> \o Str(tenths % 10)

\* the pairs of neighbours in sorted(numbers) that differ by 1
ConsecutiveCount(numbers) ==
    LET sorted_nums == Sorted(numbers)
    IN  Cardinality({i \in 1..(Len(sorted_nums) - 1) :
                        sorted_nums[i] + 1 = sorted_nums[i + 1]})

\* the patterns of lines 225-272, from the first 10 draws
identify_patterns(draws) ==
    LET recent == Take(draws, 10)
        n == Len(recent)
        avg_consecutive ==
            Rat(SumSeq([i \in 1..n |-> ConsecutiveCount(recent[i].main)]), n)
        zone(lo, hi) ==
            SumSeq([i \in 1..n |-> CountIn(recent[i].main, lo, hi)])
        low == zone(1, 12)
        mid == zone(13, 25)
        high == SumSeq([i \in 1..n |-> Len(recent[i].main)]) - low - mid
        total == low + mid + high
        avg_odd == Rat(SumSeq([i \in 1..n |-> OddCount(recent[i].main)]), n)
    IN  <<[type |-> "consecutive",
           description |-> <<"Average", " ">> \o Fixed1(avg_consecutive)
               \o <<" ", "consecutive pairs in recent draws">>,
           value |-> avg_consecutive],
          [type |-> "zone_distribution",
           description |-> <<"Zone distribution in recent draws">>,
           value |-> [low |-> Round1(Rat(100 * low, total)),
                      mid |-> Round1(Rat(100 * mid, total)),
                      high |-> Round1(Rat(100 * high, total))]],
          [type |-> "odd_even_ratio",
           description |-> <<"Average", " ">> \o Fixed1(avg_odd)
               \o <<" ", "odd numbers in recent draws">>,
           value |-> avg_odd]>>

\* lines 220-223 return the empty list before anything is computed or
\* stored; line 274 stores the list that line 275 returns
identify_patterns_call ==
    /\ pc = "idle"
    /\ \E draws \in AnalyzerHistories :
        /\ args' = [handler |-> "identify_patterns", draws |-> draws]
        /\ IF Len(draws) < 3
           THEN ret' = <<>> /\ recent_patterns' = recent_patterns
           ELSE /\ ret' = identify_patterns(draws)
                /\ recent_patterns' = identify_patterns(draws)
    /\ pc' = "done"
    /\ UNCHANGED <<data_file, previous_draw_numbers, sum_min, sum_max, config,
                   historical_stats, genLocals>>

TopCounts == {0, 1, 3, 4}

get_top_patterns_call ==
    /\ pc = "idle"
    /\ \E n \in TopCounts :
        /\ args' = [handler |-> "get_top_patterns", n |-> n]
        /\ ret' = Take(recent_patterns, n)
    /\ pc' = "done"
    /\ UNCHANGED <<data_file, service, genLocals>>

InitAnalyzer ==
    /\ \E cfg \in AnalyzerConfigs : StatisticalAnalyzer_init(cfg)
    /\ IdleFrame
    /\ data_file = FileMissing

NextAnalyzer ==
    \/ analyze_historical_data_call
    \/ score_combination_call
    \/ identify_patterns_call
    \/ get_top_patterns_call
    \/ Return

SpecAnalyzer == InitAnalyzer /\ [][NextAnalyzer]_vars

-----------------------------------------------------------------------------
(* DataService: the persisted list of draws, most recent first             *)

Raised(error) == [raised |-> TRUE, error |-> error]

Returned(value) == [raised |-> FALSE, value |-> value]

\* the file parses, but its top level is a list, a number or null
FileNotObject == [kind |-> "not_object"]

\* the file holds an object without a 'draws' key
FileNoDrawsKey == [kind |-> "no_draws_key"]

\* the file holds an object whose 'draws' is null or a number
FileDrawsNotList == [kind |-> "draws_not_list"]

\* the keys from_dict reads with data[...]
RequiredKeys == {"id", "date", "main", "bonus"}

\* the exception load_draws lets through: only FileNotFoundError and
\* json.JSONDecodeError are caught
LoadError(file) ==
    IF file.kind = "not_object" THEN Some("AttributeError")
    ELSE IF file.kind = "draws_not_list" THEN Some("TypeError")
    ELSE IF /\ file.kind = "json"
            /\ \E i \in DOMAIN file.draws :
                ~(RequiredKeys \subseteq DOMAIN file.draws[i])
         THEN Some("KeyError")
         ELSE None_

\* load_draws when nothing is raised: the records of the file, or [] when
\* it is absent, is not JSON, or has no 'draws' key
load_draws(file) ==
    IF file.kind = "json"
    THEN [i \in DOMAIN file.draws |-> from_dict(file.draws[i])]
    ELSE <<>>

\* load_draws as its caller sees it
load_draws_outcome(file) ==
    IF LoadError(file).isNone
    THEN Returned(load_draws(file))
    ELSE Raised(LoadError(file).value)

\* what save_draws writes when nothing fails
SavedFile(draws) == FileJSON([i \in DOMAIN draws |-> to_dict(draws[i])])

\* mutant: what is written keeps the records the file holds that the list
\* does not
save_draws_Merge(draws, file) ==
    LET old == IF LoadError(file).isNone THEN load_draws(file) ELSE <<>>
        kept == SelectSeq(old, LAMBDA d : \A i \in DOMAIN draws : draws[i].id # d.id)
    IN  SavedFile(draws \o kept)

\* save_draws opens the file with 'w': what it held is gone
save_draws(draws, file) == SavedFile(draws)

\* mutant: the new draw goes to the end of the list
InsertFirst_Append(draws, new_draw) == draws \o <<new_draw>>

\* draws.insert(0, new_draw)
InsertFirst(draws, new_draw) == <<new_draw>> \o draws

\* mutant: only the first record is compared
HasId_FirstOnly(draws, id) == draws # <<>> /\ draws[1].id = id

\* mutant: no record is compared
HasId_Never(draws, id) == FALSE

\* any(draw.id == new_draw.id for draw in draws)
HasId(draws, id) == \E i \in DOMAIN draws : draws[i].id = id

Draw651 ==
    [id |-> <<"dai", "6", "5", "1", "kai">>, date |-> "2024-11-05",
     main |-> <<2, 9, 16, 23, 27, 31, 36>>, bonus |-> <<5, 15>>,
     evaluation |-> None_]

\* the records handed to add_draw: valid ones, one whose bonus overlaps its
\* main, with and without an evaluation payload
NewDraws ==
    {[d EXCEPT !.evaluation = e] :
        d \in {Draw649, Draw650, Draw651, [Draw651 EXCEPT !.bonus = <<5, 9>>]},
        e \in SampleEvaluations}

\* what the data file may hold when a DataService is pointed at it: the
\* last one is a 'draws' list whose entry lacks date, main and bonus
InitialFiles ==
    {FileMissing, FileCorrupt, SavedFile(<<>>), SavedFile(<<Draw649>>),
     FileNotObject, FileNoDrawsKey, FileDrawsNotList,
     FileJSON(<<[id |-> Draw650.id]>>)}

load_draws_call ==
    /\ pc = "idle"
    /\ args' = [handler |-> "load_draws"]
    /\ ret' = load_draws_outcome(data_file)
    /\ pc' = "done"
    /\ UNCHANGED <<data_file, service, genLocals>>

add_draw_call ==
    /\ pc = "idle"
    /\ \E new_draw \in NewDraws :
        /\ args' = [handler |-> "add_draw", new_draw |-> new_draw,
                    draws |-> <<>>]
        /\ IF ~validate(new_draw)
           THEN ret' = Raised("ValueError") /\ pc' = "done"
           ELSE ret' = Blank /\ pc' = "add_load"
    /\ UNCHANGED <<data_file, service, genLocals>>

\* line 66: an exception of load_draws ends the call
add_draw_load ==
    /\ pc = "add_load"
    /\ LET loaded == load_draws_outcome(data_file)
       IN  IF loaded.raised
           THEN ret' = loaded /\ pc' = "done" /\ args' = args
           ELSE /\ args' = [args EXCEPT !.draws = loaded.value]
                /\ pc' = "add_check"
                /\ ret' = ret
    /\ UNCHANGED <<data_file, service, genLocals>>

\* lines 69-73
add_draw_check ==
    /\ pc = "add_check"
    /\ IF HasId(args.draws, args.new_draw.id)
       THEN /\ ret' = Raised("ValueError")
            /\ pc' = "done"
            /\ args' = args
       ELSE /\ args' = [args EXCEPT !.draws = InsertFirst(@, args.new_draw)]
            /\ pc' = "add_save"
            /\ ret' = ret
    /\ UNCHANGED <<data_file, service, genLocals>>

\* line 76: save_draws writes the whole list and returns True; when the
\* write fails it returns False and the file is as it was or, opened for
\* writing already, left without valid content
add_draw_save ==
    /\ pc = "add_save"
    /\ \/ data_file' = save_draws(args.draws, data_file) /\ ret' = Returned(TRUE)
       \/ data_file' \in {data_file, FileCorrupt} /\ ret' = Returned(FALSE)
    /\ pc' = "done"
    /\ UNCHANGED <<service, genLocals, args>>

get_latest_draw_call ==
    /\ pc = "idle"
    /\ args' = [handler |-> "get_latest_draw"]
    /\ LET loaded == load_draws_outcome(data_file)
       IN  ret' = IF loaded.raised THEN loaded
                  ELSE Returned(IF loaded.value # <<>>
                                THEN Some(loaded.value[1]) ELSE None_)
    /\ pc' = "done"
    /\ UNCHANGED <<data_file, service, genLocals>>

InitStore ==
    /\ PredictionService_init(None_, None_, <<>>)
    /\ IdleFrame
    /\ data_file \in InitialFiles

NextStore ==
    \/ load_draws_call
    \/ add_draw_call
    \/ add_draw_load
    \/ add_draw_check
    \/ add_draw_save
    \/ get_latest_draw_call
    \/ Return

SpecStore == InitStore /\ [][NextStore]_vars

-----------------------------------------------------------------------------
(* DataService under concurrent requests: each caller runs add_draw with    *)
(* its own locals on the one data file; pc, args and ret hold one frame per *)
(* caller                                                                    *)

Callers == {1, 2}

\* the records the callers add
RaceDraws == {Draw649, Draw650, Draw651, [Draw651 EXCEPT !.bonus = <<5, 9>>]}

add_draw_call_by(p) ==
    /\ pc[p] = "idle"
    /\ \E new_draw \in RaceDraws :
        /\ args' = [args EXCEPT ![p] = [handler |-> "add_draw",
                                        new_draw |-> new_draw, draws |-> <<>>]]
        /\ IF ~validate(new_draw)
           THEN /\ ret' = [ret EXCEPT ![p] = Raised("ValueError")]
                /\ pc' = [pc EXCEPT ![p] = "done"]
           ELSE /\ ret' = ret
                /\ pc' = [pc EXCEPT ![p] = "add_load"]
    /\ UNCHANGED <<data_file, service, genLocals>>

add_draw_load_by(p) ==
    /\ pc[p] = "add_load"
    /\ LET loaded == load_draws_outcome(data_file)
       IN  IF loaded.raised
           THEN /\ ret' = [ret EXCEPT ![p] = loaded]
                /\ pc' = [pc EXCEPT ![p] = "done"]
                /\ args' = args
           ELSE /\ args' = [args EXCEPT ![p].draws = loaded.value]
                /\ pc' = [pc EXCEPT ![p] = "add_check"]
                /\ ret' = ret
    /\ UNCHANGED <<data_file, service, genLocals>>

add_draw_check_by(p) ==
    /\ pc[p] = "add_check"
    /\ IF HasId(args[p].draws, args[p].new_draw.id)
       THEN /\ ret' = [ret EXCEPT ![p] = Raised("ValueError")]
            /\ pc' = [pc EXCEPT ![p] = "done"]
            /\ args' = args
       ELSE /\ args' = [args EXCEPT
                          ![p].draws = InsertFirst(@, args[p].new_draw)]
            /\ pc' = [pc EXCEPT ![p] = "add_save"]
            /\ ret' = ret
    /\ UNCHANGED <<data_file, service, genLocals>>

add_draw_save_by(p) ==
    /\ pc[p] = "add_save"
    /\ \/ /\ data_file' = save_draws(args[p].draws, data_file)
          /\ ret' = [ret EXCEPT ![p] = Returned(TRUE)]
       \/ /\ data_file' \in {data_file, FileCorrupt}
          /\ ret' = [ret EXCEPT ![p] = Returned(FALSE)]
    /\ pc' = [pc EXCEPT ![p] = "done"]
    /\ UNCHANGED <<service, genLocals, args>>

Return_by(p) ==
    /\ pc[p] = "done"
    /\ pc' = [pc EXCEPT ![p] = "idle"]
    /\ args' = [args EXCEPT ![p] = Blank]
    /\ ret' = [ret EXCEPT ![p] = Blank]
    /\ UNCHANGED <<data_file, service, genLocals>>

InitRace ==
    /\ PredictionService_init(None_, None_, <<>>)
    /\ count = 0 /\ max_attempts = 0 /\ candidates = {} /\ attempts = 0
    /\ combo = <<>>
    /\ pc = [p \in Callers |-> "idle"]
    /\ args = [p \in Callers |-> Blank]
    /\ ret = [p \in Callers |-> Blank]
    /\ data_file \in InitialFiles

NextRace ==
    \E p \in Callers :
        \/ add_draw_call_by(p)
        \/ add_draw_load_by(p)
        \/ add_draw_check_by(p)
        \/ add_draw_save_by(p)
        \/ Return_by(p)

SpecRace == InitRace /\ [][NextRace]_vars

-----------------------------------------------------------------------------
(* The predict request handler: the target draw number, the service built  *)
(* for the request, the candidates and the response                        *)

\* int(match.group(1))
RECURSIVE IntOfDigits(_)
IntOfDigits(s) ==
    IF s = <<>> THEN 0
    ELSE 10 * IntOfDigits(SubSeq(s, 1, Len(s) - 1))
         + ((CHOOSE d \in 1..10 : DigitChars[d] = s[Len(s)]) - 1)

\* where re.search finds the ordinal prefix followed by one digit or more
\* and the draw counter: <<p, q>> with the digits in between
DrawNumberMatches(id) ==
    {m \in (DOMAIN id) \X (DOMAIN id) :
        /\ m[1] + 1 < m[2]
        /\ id[m[1]] = "dai" /\ id[m[2]] = "kai"
        /\ \A i \in (m[1] + 1)..(m[2] - 1) : id[i] \in Range(DigitChars)}

\* the leftmost match
FirstMatch(id) ==
    CHOOSE m \in DrawNumberMatches(id) :
        \A o \in DrawNumberMatches(id) : m[1] <= o[1]

\* lines 52 and 86-94: data.get('next_draw_number', 650), replaced by the
\* number in the latest draw's id plus one when there is a latest draw and
\* the value is 650
TargetDrawNumber(supplied, latest_draw) ==
    LET next_draw_number == IF supplied.isNone THEN 650 ELSE supplied.value
    IN  IF /\ ~latest_draw.isNone
           /\ next_draw_number = 650
           /\ DrawNumberMatches(latest_draw.value.id) # {}
        THEN LET m == FirstMatch(latest_draw.value.id)
             IN  IntOfDigits(SubSeq(latest_draw.value.id, m[1] + 1, m[2] - 1)) + 1
        ELSE next_draw_number

\* the 'next_draw_number' of the request body, when it has one
SuppliedNumbers == {None_, Some(7), Some(650), Some(655)}

RequestCounts == {0, 1, 2}

\* the data file behind the handler; the last one holds a draw whose id
\* names no number
PredictFiles ==
    {FileMissing, FileNotObject, SavedFile(<<Draw649>>),
     SavedFile(<<Draw651, Draw650>>),
     SavedFile(<<[Draw650 EXCEPT !.id = <<"latest">>]>>)}

\* the lists generate_predictions may return for a count: accepted
\* combinations, each once, at most count of them
GeneratedLists(n) ==
    {l \in SeqsUpTo({c \in AssemblyCombos : _apply_filters(c)}, n) :
        \A i, j \in DOMAIN l : l[i] = l[j] => i = j}

Failure(status) == [success |-> FALSE, status |-> status]

\* lines 50-101: the request is read, the count checked, the store loaded
\* and the service of this request built
predict_call ==
    /\ pc = "idle"
    /\ \E supplied \in SuppliedNumbers, n \in RequestCounts,
          include_scoring \in BOOLEAN :
        LET loaded == load_draws_outcome(data_file)
            latest_draw == IF loaded.value # <<>> THEN Some(loaded.value[1])
                           ELSE None_
        IN  /\ args' = [handler |-> "predict", supplied |-> supplied,
                        count |-> n, include_scoring |-> include_scoring,
                        next_draw_number |->
                            IF n < 1 \/ loaded.raised THEN 0
                            ELSE TargetDrawNumber(supplied, latest_draw)]
            /\ IF n < 1
               THEN /\ ret' = Failure(400) /\ pc' = "done"
                    /\ UNCHANGED service
               ELSE IF loaded.raised
               THEN /\ ret' = Failure(500) /\ pc' = "done"
                    /\ UNCHANGED service
               ELSE /\ previous_draw_numbers' = PrevNumbersInit(latest_draw)
                    /\ config' = ConfigOrDefault(None_)
                    /\ sum_min' = ConfigOrDefault(None_).sum_min
                    /\ sum_max' = ConfigOrDefault(None_).sum_max
                    /\ historical_stats' =
                            IF loaded.value # <<>>
                            THEN analyze_historical_data(<<>>, loaded.value, 10)
                            ELSE <<>>
                    /\ recent_patterns' = <<>>
                    /\ ret' = Blank
                    /\ pc' = "predict_generate"
    /\ UNCHANGED <<data_file, genLocals>>

\* lines 109-140: the candidates are generated and assembled
predict_respond ==
    /\ pc = "predict_generate"
    /\ \E predictions \in GeneratedLists(args.count) :
        IF predictions = <<>>
        THEN ret' = Failure(400)
        ELSE \E picks \in [DOMAIN predictions -> SamplePicks] :
                LET predicted_draws ==
                        create_predicted_draws(predictions,
                            args.next_draw_number, TRUE,
                            args.include_scoring, "2024-11-07", picks)
                IN  ret' = [success |-> TRUE,
                            draws |-> [k \in DOMAIN predicted_draws |->
                                            to_dict(predicted_draws[k])],
                            count |-> Len(predicted_draws),
                            next_draw_number |-> args.next_draw_number]
    /\ pc' = "done"
    /\ UNCHANGED <<data_file, service, genLocals, args>>

InitPredict ==
    /\ PredictionService_init(None_, None_, <<>>)
    /\ IdleFrame
    /\ data_file \in PredictFiles

NextPredict ==
    \/ predict_call
    \/ predict_respond
    \/ Return

SpecPredict == InitPredict /\ [][NextPredict]_vars

-----------------------------------------------------------------------------
(* Properties                                                              *)

InGenerate == pc = "gen_loop"

GenerateReturned ==
    pc = "done" /\ args.handler = "generate_predictions"

SevenFilters(c) ==
    /\ \E i \in 1..6 : c[i + 1] - c[i] = 1
    /\ Range(c) \cap (1..12) # {}
    /\ Range(c) \cap (13..25) # {}
    /\ Range(c) \cap (26..37) # {}
    /\ Range(c) \cap (1..9) # {}
    /\ Range(c) \cap (10..18) # {}
    /\ Range(c) \cap (19..27) # {}
    /\ Range(c) \cap (28..37) # {}
    /\ Cardinality({n \in Range(c) : n % 2 = 1}) \in {3, 4}
    /\ sum_min <= SumSeq(c) /\ SumSeq(c) <= sum_max
    /\ \A d \in 0..9 : Cardinality({n \in Range(c) : n % 10 = d}) <= 2
    /\ (previous_draw_numbers = {}
        \/ Cardinality(Range(c) \cap previous_draw_numbers) <= 1)

\* C1: at every iteration of the sampling loop and in the returned list,
\* every accepted combination satisfies all seven filter predicates under
\* the service's current sum range and previous-draw set.
C1_AcceptedPassAllFilters ==
    /\ (InGenerate \/ GenerateReturned) =>
            \A c \in candidates : SevenFilters(c)
    /\ GenerateReturned => \A i \in DOMAIN ret : SevenFilters(ret[i])

C1_Witness ==
    /\ GenerateReturned
    /\ Len(ret) >= 2
    /\ previous_draw_numbers # {}
    /\ attempts > Len(ret)

\* C2: generate_predictions terminates; it draws at most max_attempts
\* samples, every sample (accepted, rejected or duplicate) counts as one
\* attempt, no sample is drawn once the accepted set holds count
\* combinations or the counter equals max_attempts, and it returns at the
\* first such moment.
C2_Budget ==
    (InGenerate \/ GenerateReturned) =>
        /\ 0 <= attempts /\ attempts <= max_attempts
        /\ Cardinality(candidates) <= count

C2_StopCondition ==
    GenerateReturned =>
        (Cardinality(candidates) = count \/ attempts = max_attempts)

C2_EverySampleCounts ==
    (pc = "gen_loop" /\ pc' = "gen_loop") =>
        /\ attempts' = attempts + 1
        /\ Cardinality(candidates) < count
        /\ attempts < max_attempts

C2_NoSampleAfterStop ==
    (pc = "gen_loop"
     /\ (Cardinality(candidates) = count \/ attempts = max_attempts)) =>
        (pc' = "done" /\ attempts' = attempts /\ candidates' = candidates)

C2_Live == InGenerate ~> GenerateReturned

C2_Terminates ==
    /\ [](C2_Budget /\ C2_StopCondition)
    /\ [][C2_EverySampleCounts /\ C2_NoSampleAfterStop]_vars
    /\ (InGenerate ~> GenerateReturned)

C2_Witness ==
    /\ GenerateReturned
    /\ attempts = max_attempts
    /\ max_attempts = MaxAttempts
    /\ Cardinality(candidates) < count
    /\ combo \in candidates

\* C3: budget exhaustion is not an error: the call returns what was
\* accepted so far; the returned list has at most count elements, no
\* combination twice, and every element is an ascending 7-tuple of
\* distinct integers in 1..37.
C3_ShortResultWellFormed ==
    GenerateReturned =>
        /\ Len(ret) <= count
        /\ Range(ret) = candidates
        /\ \A i, j \in DOMAIN ret : i # j => ret[i] # ret[j]
        /\ \A i \in DOMAIN ret :
            /\ Len(ret[i]) = 7
            /\ \A k \in 1..7 : ret[i][k] \in 1..37
            /\ \A k \in 1..6 : ret[i][k] < ret[i][k + 1]
        /\ (attempts = max_attempts /\ Cardinality(candidates) < count) =>
                Len(ret) < count

C3_Witness ==
    /\ GenerateReturned
    /\ attempts = max_attempts
    /\ count = 3
    /\ Len(ret) = 1

C3_WitnessEmpty ==
    /\ GenerateReturned
    /\ attempts = max_attempts
    /\ attempts > 0
    /\ count > 0
    /\ ret = <<>>

EvaluateReturned ==
    pc = "done" /\ args.handler = "evaluate_combination"

\* C7: evaluate_combination is idempotent and read-only: a second call with
\* the same combination, made in the state the first call left, returns the
\* output the first call returned, and a call leaves the previous-draw set,
\* the sum range and the analyzer statistics as they were.
C7_SecondCallSame ==
    EvaluateReturned => evaluate_combination(args.combo) = ret

C7_ReadOnly ==
    (pc = "idle" /\ pc' = "done" /\ args'.handler = "evaluate_combination")
        => /\ previous_draw_numbers' = previous_draw_numbers
           /\ sum_min' = sum_min /\ sum_max' = sum_max
           /\ historical_stats' = historical_stats

C7_IdempotentReadOnly ==
    /\ []C7_SecondCallSame
    /\ [][C7_ReadOnly]_vars

C7_Witness ==
    /\ EvaluateReturned
    /\ ret.pull.count = 2
    /\ ~ret.overall_pass
    /\ ret.continuous.pass

ValidateReturned == pc = "done" /\ args.handler = "validate"

\* C5: validate returns true iff main has exactly 7 entries, bonus has
\* exactly 2, every value is in 1..37, neither list has a duplicate and the
\* two lists share no value.
C5_ValidateIff ==
    ValidateReturned =>
        LET m == args.draw.main
            b == args.draw.bonus
        IN  ret <=> /\ Len(m) = 7
                    /\ Len(b) = 2
                    /\ \A i \in DOMAIN m : m[i] \in 1..37
                    /\ \A i \in DOMAIN b : b[i] \in 1..37
                    /\ \A i, j \in DOMAIN m : i # j => m[i] # m[j]
                    /\ \A i, j \in DOMAIN b : i # j => b[i] # b[j]
                    /\ \A i \in DOMAIN m : \A j \in DOMAIN b : m[i] # b[j]

C5_Witness ==
    /\ ValidateReturned
    /\ ret = FALSE
    /\ args.draw.main = <<1, 8, 10, 14, 25, 33, 35>>
    /\ args.draw.bonus = <<8, 21>>

C5_WitnessValid ==
    /\ ValidateReturned
    /\ ret = TRUE
    /\ args.draw.main = <<37, 2, 3, 4, 5, 6, 1>>

RoundTripDone == pc = "done" /\ args.handler = "from_dict"

\* C6: round trip: for every draw record d, from_dict(to_dict(d)) has the
\* id, date, main, bonus and evaluation of d.
C6_RoundTrip ==
    RoundTripDone =>
        /\ ret.id = args.draw.id
        /\ ret.date = args.draw.date
        /\ ret.main = args.draw.main
        /\ ret.bonus = args.draw.bonus
        /\ ret.evaluation = args.draw.evaluation

BonusReturned == pc = "done" /\ args.handler = "generate_bonus_numbers"

RankReturned == pc = "done" /\ args.handler = "rank_predictions"

CreateReturned == pc = "done" /\ args.handler = "create_predicted_draws"

BonusWellFormed(main, bonus) ==
    /\ Len(bonus) = 2
    /\ bonus[1] \in 1..37 /\ bonus[2] \in 1..37
    /\ bonus[1] < bonus[2]
    /\ \A i \in DOMAIN main : main[i] # bonus[1] /\ main[i] # bonus[2]

\* C4: for every list of 7 main numbers in 1..37, generate_bonus_numbers
\* returns exactly 2 distinct integers in 1..37, none of them a main
\* number, in ascending order.
C4_BonusNumbers ==
    /\ BonusReturned => BonusWellFormed(args.main_numbers, ret)
    /\ CreateReturned =>
            \A k \in DOMAIN ret : BonusWellFormed(ret[k].main, ret[k].bonus)

C4_Witness ==
    /\ BonusReturned
    /\ ~IsAscending(args.main_numbers)
    /\ 3 \in Range(args.main_numbers)
    /\ ret = <<1, 2>>

C4_WitnessHigh ==
    /\ BonusReturned
    /\ args.main_numbers = <<31, 32, 33, 34, 35, 36, 37>>
    /\ ret = <<1, 30>>

ScoredItems == {k \in DOMAIN ret : ~ret[k].score.isNone}

\* C8 as stated: every pair of ranked candidates i, j with
\* score[i] >= score[j] has rank[i] <= rank[j].
C8_MonotonicRanking_Original ==
    RankReturned =>
        \A i, j \in ScoredItems :
            RLe(ret[j].score.value, ret[i].score.value)
                => ret[i].rank <= ret[j].rank

\* C8 amended: every pair of ranked candidates i, j with
\* score[i] > score[j] has rank[i] < rank[j]; candidates of equal score
\* have different ranks.
C8_MonotonicRanking ==
    RankReturned =>
        /\ \A i, j \in ScoredItems :
            RLt(ret[j].score.value, ret[i].score.value)
                => ret[i].rank < ret[j].rank
        /\ \A i, j \in ScoredItems : i # j => ret[i].rank # ret[j].rank

C8_Witness ==
    /\ RankReturned
    /\ Len(ret) = 3
    /\ \A k \in 1..3 : ~args.predictions[k][2].scoring.isNone
    /\ ret[1].score = ret[2].score
    /\ RLt(ret[3].score.value, ret[2].score.value)
    /\ RLt(ScoreKey(args.predictions[1]), ScoreKey(args.predictions[2]))

PlaceAssignments(n) == {f \in [1..n -> 1..n] : \A i, j \in 1..n : i # j => f[i] # f[j]}

\* out is inp stably sorted by non-increasing score: some one-to-one
\* assignment of output places to input places carries the combinations
\* and scores over, scores never rise from one place to the next, and equal
\* scores appear in input order
StablyRanked(n, inCombo(_), inScore(_), outCombo(_), outScore(_)) ==
    \E f \in PlaceAssignments(n) :
        /\ \A k \in 1..n : outCombo(k) = inCombo(f[k])
                           /\ outScore(k) = inScore(f[k])
        /\ \A k \in 1..(n - 1) :
            \/ RLt(outScore(k + 1), outScore(k))
            \/ (outScore(k + 1) = outScore(k) /\ f[k] < f[k + 1])

AllScored(predictions) ==
    \A k \in DOMAIN predictions : ~predictions[k][2].scoring.isNone

C9_RankOutput ==
    (RankReturned /\ AllScored(args.predictions)) =>
        LET inp == args.predictions
            inCombo(k) == inp[k][1]
            inScore(k) == inp[k][2].scoring.value.final_score
            outCombo(k) == ret[k].combination
            outScore(k) == ret[k].score.value
        IN  /\ Len(ret) = Len(inp)
            /\ StablyRanked(Len(inp), inCombo, inScore, outCombo, outScore)
            /\ \A k \in DOMAIN ret :
                /\ ret[k].rank = k
                /\ ret[k].scoring.value.final_score = ret[k].score.value
                /\ \E i \in DOMAIN inp : ret[k].evaluation = inp[i][2].evaluation

\* decimal value of a sequence of digit characters
RECURSIVE DigitsValue(_)
DigitsValue(s) ==
    IF s = <<>> THEN 0
    ELSE 10 * DigitsValue(SubSeq(s, 1, Len(s) - 1))
         + ((CHOOSE d \in 1..10 : DigitChars[d] = s[Len(s)]) - 1)

IsDigits(s) == s # <<>> /\ \A i \in DOMAIN s : s[i] \in Range(DigitChars)

\* id reads "dai <n> kai kouho <k>"
IdNames(id, n, k) ==
    \E p \in DOMAIN id :
        /\ id[1] = "dai"
        /\ p > 2 /\ p + 3 <= Len(id)
        /\ SubSeq(id, p, p + 2) = <<"kai", " ", "kouho">>
        /\ IsDigits(SubSeq(id, 2, p - 1))
        /\ DigitsValue(SubSeq(id, 2, p - 1)) = n
        /\ IsDigits(SubSeq(id, p + 3, Len(id)))
        /\ DigitsValue(SubSeq(id, p + 3, Len(id))) = k

C9_CreateOrder ==
    (CreateReturned /\ args.include_scoring /\ args.include_evaluation) =>
        LET inp == args.predictions
            inCombo(k) == inp[k]
            inScore(k) == score_combination(inp[k],
                                evaluate_combination(inp[k])).final_score
            outCombo(k) == ret[k].main
            outScore(k) == ret[k].evaluation.value.scoring.final_score
        IN  /\ Len(ret) = Len(inp)
            /\ StablyRanked(Len(inp), inCombo, inScore, outCombo, outScore)
            /\ \A k \in DOMAIN ret :
                    IdNames(ret[k].id, args.next_draw_number, k)

\* C9: when every input prediction carries a scoring, rank_predictions
\* returns a permutation of the input in non-increasing order of
\* final_score, equal scores keep their input order, the k-th entry has
\* rank k; create_predicted_draws with scoring emits its records in that
\* order.
C9_StableRanking == C9_RankOutput /\ C9_CreateOrder

C9_Witness ==
    /\ RankReturned
    /\ Len(ret) = 3
    /\ AllScored(args.predictions)
    /\ ret[1].score = ret[2].score
    /\ ret[1].combination # ret[2].combination
    /\ ret[3].combination = args.predictions[1][1]
    /\ ret[3].score # ret[1].score

C9_WitnessCreate ==
    /\ CreateReturned /\ args.include_scoring /\ args.include_evaluation
    /\ Len(ret) = 3
    /\ ret[1].main # ret[2].main
    /\ ret[1].evaluation.value.scoring.final_score
         = ret[2].evaluation.value.scoring.final_score
    /\ ret[3].main = args.predictions[1]
    /\ ret[3].main # ret[1].main

\* C10: without scoring, create_predicted_draws returns one record per
\* input prediction in input order: the k-th record has the k-th input
\* combination as main and an id naming the target draw number and k.
C10_UnrankedOrder ==
    (CreateReturned /\ ~args.include_scoring) =>
        /\ Len(ret) = Len(args.predictions)
        /\ \A k \in DOMAIN ret :
            /\ ret[k].main = args.predictions[k]
            /\ IdNames(ret[k].id, args.next_draw_number, k)

C10_Witness ==
    /\ CreateReturned /\ ~args.include_scoring
    /\ Len(ret) = 3
    /\ args.next_draw_number = 651
    /\ ret[3].id = <<"dai", "6", "5", "1", "kai", " ", "kouho", "3">>
    /\ ret[1].main = <<3, 4, 6, 11, 19, 20, 36>>
    /\ ret[2].main = <<3, 4, 13, 16, 18, 25, 36>>

ComboSum(c) == c[1] + c[2] + c[3] + c[4] + c[5] + c[6] + c[7]

\* the draws a service of the model may hold as its previous draw
PreviousDrawsSet == {None_, Some(Draw649), Some(Draw650)}

Overlap(c, d) ==
    Cardinality({i \in DOMAIN c :
                    \/ \E k \in DOMAIN d.main : d.main[k] = c[i]
                    \/ \E k \in DOMAIN d.bonus : d.bonus[k] = c[i]})

\* C11: the pull predicate is true iff no previous draw is set or the
\* candidate shares at most 1 number with the previous draw's main and
\* bonus numbers taken together; a bonus number counts like a main number
\* and an overlap of 2 or more fails.
C11_PullPredicate ==
    /\ \E d \in PreviousDrawsSet :
            previous_draw_numbers =
                IF d.isNone THEN {}
                ELSE Range(d.value.main) \cup Range(d.value.bonus)
    /\ EvaluateReturned =>
        \A d \in PreviousDrawsSet :
            (previous_draw_numbers =
                IF d.isNone THEN {}
                ELSE Range(d.value.main) \cup Range(d.value.bonus))
            => /\ ret.pull.pass = (d.isNone \/ Overlap(args.combo, d.value) <= 1)
               /\ _check_pull(args.combo) = ret.pull.pass

C11_Witness ==
    /\ EvaluateReturned
    /\ previous_draw_numbers = {2, 12, 21, 22, 23, 26, 33, 35, 37}
    /\ args.combo = <<2, 5, 10, 23, 30, 31, 36>>
    /\ ~ret.pull.pass

C11_WitnessOne ==
    /\ EvaluateReturned
    /\ previous_draw_numbers = {2, 12, 21, 22, 23, 26, 33, 35, 37}
    /\ args.combo = <<5, 7, 12, 13, 19, 24, 36>>
    /\ ret.pull.pass

C11_WitnessUnset ==
    /\ EvaluateReturned
    /\ previous_draw_numbers = {}
    /\ args.combo = <<2, 5, 10, 23, 30, 31, 36>>
    /\ ret.pull.pass

\* C12: the sum predicate is true iff sum_min <= sum of the 7 numbers <=
\* sum_max, both bounds inclusive, with sum_min and sum_max taken from the
\* FilterConfig the service was given (100 and 170 by default): sums 100 and
\* 170 pass, 99 and 171 fail.
C12_SumPredicate ==
    /\ sum_min = config.sum_min /\ sum_max = config.sum_max
    /\ (Some(config) \notin Configs) => (sum_min = 100 /\ sum_max = 170)
    /\ EvaluateReturned =>
        LET total == ComboSum(args.combo)
        IN  /\ ret.sum.pass = (config.sum_min <= total /\ total <= config.sum_max)
            /\ _check_sum(args.combo) = ret.sum.pass
            /\ (Some(config) \notin Configs) =>
                    /\ total \in {100, 170} => ret.sum.pass
                    /\ total \in {99, 171} => ~ret.sum.pass

C12_Witness ==
    /\ EvaluateReturned
    /\ Some(config) \notin Configs
    /\ ComboSum(args.combo) = 170
    /\ ret.sum.pass

C12_WitnessLow ==
    /\ EvaluateReturned
    /\ Some(config) \notin Configs
    /\ ComboSum(args.combo) = 99
    /\ ~ret.sum.pass

C12_WitnessCustom ==
    /\ EvaluateReturned
    /\ config.sum_min = 116
    /\ ComboSum(args.combo) = 100
    /\ ~ret.sum.pass

AdjacentPairs(c) == {i \in 1..6 : c[i + 1] - c[i] = 1}

C13_WitnessNone ==
    /\ EvaluateReturned
    /\ args.combo = <<1, 12, 15, 17, 19, 32, 36>>
    /\ ~ret.continuous.pass

\* C14: for a sorted 7-subset of 1..37, _apply_filters and the overall_pass
\* flag of evaluate_combination both equal the conjunction of the seven
\* reference predicates, and overall_pass equals the conjunction of the
\* seven per-filter pass flags of the same report.
C14_OverallPass ==
    (EvaluateReturned /\ IsAscending(args.combo)) =>
        /\ ret.overall_pass = SevenFilters(args.combo)
        /\ _apply_filters(args.combo) = SevenFilters(args.combo)
        /\ ret.overall_pass =
            (/\ ret.continuous.pass /\ ret.zone3.pass /\ ret.zone4.pass
             /\ ret.odd_even.pass /\ ret.sum.pass /\ ret.last_digits.pass
             /\ ret.pull.pass)

C14_Witness ==
    /\ EvaluateReturned
    /\ args.combo = <<5, 7, 8, 11, 26, 34, 36>>
    /\ previous_draw_numbers = {}
    /\ ~ret.zone3.pass
    /\ ret.continuous.pass /\ ret.zone4.pass /\ ret.odd_even.pass
    /\ ret.sum.pass /\ ret.last_digits.pass /\ ret.pull.pass
    /\ ~ret.overall_pass

C14_WitnessPass ==
    /\ EvaluateReturned
    /\ args.combo = <<5, 7, 12, 13, 19, 24, 36>>
    /\ previous_draw_numbers # {}
    /\ ret.overall_pass

AnalyzeReturned == pc = "done" /\ args.handler = "analyze_historical_data"

ScoreReturned == pc = "done" /\ args.handler = "score_combination"

\* indexes (from 0, most recent first) of the draws whose main holds num
DrawsWith(num, draws) ==
    {i \in 0..(Len(draws) - 1) :
        \E k \in DOMAIN draws[i + 1].main : draws[i + 1].main[k] = num}

\* C15: analyze_historical_data over a most-recent-first sequence of draws
\* sets, for every number 1..37, frequency to the number of draws whose
\* main holds it, recent_frequency to the number of those with index below
\* recent_window, and last_appearance to the smallest index of such a draw.
C15_ScanCounts ==
    AnalyzeReturned =>
        /\ DOMAIN historical_stats = 1..37
        /\ \A num \in 1..37 :
            LET with == DrawsWith(num, args.draws)
                m == historical_stats[num]
            IN  /\ m.frequency = Cardinality(with)
                /\ m.recent_frequency =
                        Cardinality({i \in with : i < args.recent_window})
                /\ (with = {} => m.last_appearance.isNone)
                /\ (with # {} =>
                        /\ ~m.last_appearance.isNone
                        /\ m.last_appearance.value \in with
                        /\ \A i \in with : m.last_appearance.value <= i)

C15_Witness ==
    /\ AnalyzeReturned
    /\ Len(args.draws) = 3
    /\ args.recent_window = 2
    /\ historical_stats[25].frequency = 2
    /\ historical_stats[25].recent_frequency = 1
    /\ historical_stats[25].last_appearance = Some(0)
    /\ historical_stats[36].last_appearance = Some(2)
    /\ historical_stats[36].recent_frequency = 0

\* C16: after analyze_historical_data on at least one draw, a number that
\* is in no draw's main has last_appearance None and overdue_score 100, and
\* a number that appears has overdue_score
\* min(100, last_appearance / (total_draws / frequency) * 50), within
\* [0, 100].
C16_OverdueScore ==
    (AnalyzeReturned /\ args.draws # <<>>) =>
        \A num \in 1..37 :
            LET with == DrawsWith(num, args.draws)
                m == historical_stats[num]
                la == CHOOSE i \in with : \A j \in with : i <= j
                expected_gap == Rat(Len(args.draws), Cardinality(with))
                ratio == Rat(la * expected_gap.d, expected_gap.n)
                scaled == RMul(ratio, RInt(50))
            IN  /\ (with = {} =>
                        /\ m.last_appearance = None_
                        /\ m.overdue_score = RInt(100))
                /\ (with # {} =>
                        /\ m.overdue_score =
                            (IF RLe(scaled, RInt(100)) THEN scaled
                             ELSE RInt(100))
                        /\ RLe(RInt(0), m.overdue_score)
                        /\ RLe(m.overdue_score, RInt(100)))

C16_Witness ==
    /\ AnalyzeReturned
    /\ Len(args.draws) = 9
    /\ historical_stats[9].last_appearance = None_
    /\ historical_stats[9].overdue_score = RInt(100)
    /\ historical_stats[7].last_appearance = Some(4)
    /\ historical_stats[7].overdue_score = RInt(100)
    /\ historical_stats[36].overdue_score = Rat(200, 3)
    /\ historical_stats[35].overdue_score = RInt(0)

\* C17: statistics are rebuilt in full on every analysis call: after
\* analyze_historical_data(D1) and then analyze_historical_data(D2) on the
\* same analyzer every number's metrics equal those of a fresh analyzer
\* that analyzed D2 only, also when D2 is empty.
C17_RebuiltInFull ==
    AnalyzeReturned =>
        historical_stats =
            analyze_historical_data(<<>>, args.draws, args.recent_window)

C17_Witness ==
    /\ AnalyzeReturned
    /\ args.self_historical_stats # <<>>
    /\ args.self_historical_stats[35].frequency = 3
    /\ args.self_historical_stats[35].last_appearance = Some(0)
    /\ args.draws = <<>>
    /\ historical_stats[35].frequency = 0
    /\ historical_stats[35].last_appearance = None_
    /\ historical_stats[35].hot_score = RInt(0)

C17_WitnessSecond ==
    /\ AnalyzeReturned
    /\ args.self_historical_stats # <<>>
    /\ args.self_historical_stats[35].frequency = 3
    /\ args.draws = <<Draw648, Draw649>>
    /\ historical_stats[35].frequency = 2
    /\ historical_stats[1].frequency = 0

\* the weights of the configuration, by component name
ConfigWeights ==
    [continuous |-> config.continuous_weight, zone3 |-> config.zone3_weight,
     zone4 |-> config.zone4_weight, odd_even |-> config.odd_even_weight,
     sum |-> config.sum_weight, last_digits |-> config.last_digit_weight,
     pull |-> config.pull_weight, frequency |-> config.frequency_weight]

ComponentNames ==
    <<"continuous", "zone3", "zone4", "odd_even", "sum", "last_digits", "pull",
      "frequency">>

\* sum of weight * score over the components in applied, divided by the
\* sum of their weights
WeightedMean(scores, applied) ==
    LET num == RSumSeq([i \in DOMAIN ComponentNames |->
                    IF ComponentNames[i] \in applied
                    THEN RMul(RInt(ConfigWeights[ComponentNames[i]]),
                              scores[ComponentNames[i]])
                    ELSE RInt(0)])
        den == SumSeq([i \in DOMAIN ComponentNames |->
                    IF ComponentNames[i] \in applied
                    THEN ConfigWeights[ComponentNames[i]] ELSE 0])
    IN  RDivInt(num, den)

InUnitRange(x) == RLe(RInt(0), x) /\ RLe(x, RInt(100))

\* C18 as stated: final_score lies in [0, 100] and equals the sum of
\* weight * score over the components applied divided by the sum of those
\* weights.
C18_WeightedMean_Original ==
    ScoreReturned =>
        /\ InUnitRange(ret.final_score)
        /\ ret.final_score = WeightedMean(ret.scores, DOMAIN ret.scores)

\* C18 amended: final_score lies in [0, 100] and is that weighted mean
\* rounded to two decimals: a whole number of hundredths at most 0.005 away
\* from the mean.
C18_WeightedMean ==
    ScoreReturned =>
        LET mean == WeightedMean(ret.scores, DOMAIN ret.scores)
        IN  /\ InUnitRange(ret.final_score)
            /\ InUnitRange(mean)
            /\ 100 % ret.final_score.d = 0
            /\ RLe(RAbs(RSub(ret.final_score, mean)), Rat(1, 200))

C18_Witness ==
    /\ ScoreReturned
    /\ historical_stats # <<>>
    /\ "frequency" \in DOMAIN ret.scores
    /\ ~args.evaluation.sum.pass /\ args.evaluation.pull.pass
    /\ ret.final_score # WeightedMean(ret.scores, DOMAIN ret.scores)
    /\ RLt(RInt(0), ret.scores.frequency)
    /\ RLt(ret.scores.frequency, RInt(100))

\* C19: each of the seven filter scores is 100 if the filter's pass flag is
\* true and 0 otherwise; the frequency component is in the scores and
\* counted in the weighted mean iff historical statistics exist, the
\* reported frequency weight being 0 otherwise; with no statistics a
\* combination passing all seven filters gets final_score exactly 100.
C19_ComponentScores ==
    ScoreReturned =>
        LET filters == Range(FilterNames)
            exist == historical_stats # <<>>
            counted == IF exist THEN filters \cup {"frequency"} ELSE filters
        IN  /\ \A name \in filters :
                ret.scores[name] =
                    IF args.evaluation[name].pass THEN RInt(100) ELSE RInt(0)
            /\ ("frequency" \in DOMAIN ret.scores) = exist
            /\ DOMAIN ret.scores = counted
            /\ ret.weights.frequency =
                    IF exist THEN config.frequency_weight ELSE 0
            /\ \A name \in filters : ret.weights[name] = ConfigWeights[name]
            /\ RLe(RAbs(RSub(ret.final_score,
                             WeightedMean(ret.scores, counted))), Rat(1, 200))
            /\ (~exist /\ \A name \in filters : args.evaluation[name].pass)
                    => ret.final_score = RInt(100)

C19_Witness ==
    /\ ScoreReturned
    /\ historical_stats = <<>>
    /\ \A name \in Range(FilterNames) : args.evaluation[name].pass
    /\ "frequency" \notin DOMAIN ret.scores
    /\ ret.weights.frequency = 0
    /\ ret.final_score = RInt(100)

C19_WitnessWithStatistics ==
    /\ ScoreReturned
    /\ historical_stats # <<>>
    /\ \A name \in Range(FilterNames) : args.evaluation[name].pass
    /\ "frequency" \in DOMAIN ret.scores
    /\ ret.weights.frequency = 17
    /\ RLt(ret.final_score, RInt(100))

AddDrawSucceeded ==
    /\ pc = "done" /\ args.handler = "add_draw"
    /\ ~ret.raised /\ ret.value

GetLatestReturned == pc = "done" /\ args.handler = "get_latest_draw"

SameDraw(a, d) ==
    a.id = d.id /\ a.date = d.date /\ a.main = d.main /\ a.bonus = d.bonus

\* the save step of a successful add_draw(d) leaves the store holding d
\* followed by what it held, in the same order
C20_PrependStep ==
    (pc = "add_save" /\ pc' = "done" /\ ret'.value) =>
        LET before == load_draws(data_file)
            after == load_draws(data_file')
        IN  /\ Len(after) = Len(before) + 1
            /\ SameDraw(after[1], args.new_draw)
            /\ \A i \in DOMAIN before : after[i + 1] = before[i]

\* the record added last is the first of the store and the one
\* get_latest_draw returns
C20_LatestIsLastAdded ==
    /\ AddDrawSucceeded =>
        /\ data_file.kind = "json"
        /\ data_file.draws # <<>>
        /\ data_file.draws[1].id = args.new_draw.id
    /\ (GetLatestReturned /\ ~ret.raised) =>
        IF data_file.kind = "json" /\ data_file.draws # <<>>
        THEN ~ret.value.isNone /\ SameDraw(ret.value.value, data_file.draws[1])
        ELSE ret.value.isNone

C20_WitnessLatest ==
    /\ GetLatestReturned
    /\ data_file.kind = "json"
    /\ Len(data_file.draws) = 3
    /\ ~ret.value.isNone
    /\ ret.value.value.id = Draw650.id
    /\ data_file.draws[2].id = Draw651.id

\* Loto7Draw.validate() restated on the record's numbers
ValidRecord(d) ==
    /\ Len(d.main) = 7 /\ Len(d.bonus) = 2
    /\ Range(d.main) \cup Range(d.bonus) \subseteq 1..37
    /\ Cardinality(Range(d.main)) = 7
    /\ Cardinality(Range(d.bonus)) = 2
    /\ Range(d.main) \cap Range(d.bonus) = {}

AddDrawRejected ==
    pc = "done" /\ args.handler = "add_draw" /\ ret.raised

\* a step of add_draw that finds the record invalid, or its id among the
\* ids of the store, ends the call with an error; a step that ends a call
\* with an error leaves the file alone, and the file is written by the
\* save step only, which reports True or False
C21_RejectStep ==
    /\ (/\ pc = "idle" /\ pc' # "idle"
        /\ args'.handler = "add_draw"
        /\ ~ValidRecord(args'.new_draw)) =>
            pc' = "done" /\ ret'.raised /\ data_file' = data_file
    /\ (/\ pc = "add_check"
        /\ LoadError(data_file).isNone
        /\ \E i \in DOMAIN load_draws(data_file) :
              load_draws(data_file)[i].id = args.new_draw.id) =>
            pc' = "done" /\ ret'.raised /\ data_file' = data_file
    /\ (pc' = "done" /\ ret'.raised) => data_file' = data_file
    /\ (data_file' # data_file) => (pc = "add_save" /\ ~ret'.raised)

\* C21: add_draw rejects with an error, and leaves the persisted store
\* exactly as it was, whenever the new record fails validate() or its id
\* equals the id of a record already in the store; no write to the store
\* happens on either rejection.
C21_RejectsUnchanged == [][C21_RejectStep]_vars

\* a valid record is rejected for its id, held by the second record of a
\* store of two
C21_Witness ==
    /\ AddDrawRejected
    /\ ValidRecord(args.new_draw)
    /\ data_file.kind = "json"
    /\ Len(data_file.draws) = 2
    /\ data_file.draws[2].id = args.new_draw.id

\* a record whose bonus overlaps its main is rejected on a store that holds
\* a record
C21_WitnessInvalid ==
    /\ AddDrawRejected
    /\ ~ValidRecord(args.new_draw)
    /\ data_file = SavedFile(<<Draw649>>)

LoadReturned == pc = "done" /\ args.handler = "load_draws"

\* persisted content that is not an object with a 'draws' list of complete
\* entries
Malformed(file) ==
    \/ file.kind \in {"missing", "corrupt", "not_object", "no_draws_key",
                      "draws_not_list"}
    \/ /\ file.kind = "json"
       /\ \E i \in DOMAIN file.draws :
            ~({"id", "date", "main", "bonus"} \subseteq DOMAIN file.draws[i])

\* C22: load_draws never propagates an error for malformed persisted
\* content: a missing file, unparseable JSON, or JSON that parses but is
\* structurally malformed (top level not an object with a 'draws' list, or
\* a draw entry missing id/date/main/bonus) all yield an empty list of
\* draws.
C22_MalformedLoadsEmpty ==
    (LoadReturned /\ Malformed(data_file)) => ret = Returned(<<>>)

\* what does hold: a missing file, unparseable JSON and an object without
\* 'draws' load as the empty list
C22_CaughtLoadsEmpty ==
    (LoadReturned /\ data_file.kind \in {"missing", "corrupt", "no_draws_key"})
        => ret = Returned(<<>>)

FromJsonReturned == pc = "done" /\ args.handler = "from_dict_json"

\* the integer a JSON number or digit string stands for
IntValue(j) == DigitsValue(j.digits)

IsInt(j, n) == j.type = "int" /\ j.digits = Str(n)

\* C23: Loto7Draw.from_dict converts string-formatted numbers to integers:
\* given main and bonus lists of numeric strings such as '01' and '08',
\* the resulting record's main and bonus are the lists of the
\* corresponding integers.
C23_StringsToIntegers ==
    FromJsonReturned =>
        /\ Len(ret.main) = Len(args.data.main)
        /\ Len(ret.bonus) = Len(args.data.bonus)
        /\ \A i \in DOMAIN ret.main :
              IsInt(ret.main[i], IntValue(args.data.main[i]))
        /\ \A i \in DOMAIN ret.bonus :
              IsInt(ret.bonus[i], IntValue(args.data.bonus[i]))

\* what does hold: main and bonus are the lists the dictionary holds
C23_ListsCopied ==
    FromJsonReturned =>
        ret.main = args.data.main /\ ret.bonus = args.data.bonus

SucceededBy(p) ==
    /\ pc[p] = "done" /\ args[p].handler = "add_draw"
    /\ ~ret[p].raised /\ ret[p].value

\* the ids of the records a saved file holds
StoredIds(file) == {file.draws[i].id : i \in DOMAIN file.draws}

\* a save that reports True leaves the file holding the saving caller's
\* list, whatever the file held
C24_SaveStep ==
    \A p \in Callers :
        (pc[p] = "add_save" /\ pc'[p] = "done" /\ ret'[p].value) =>
            data_file' = SavedFile(args[p].draws)

\* once both calls have completed with success the file holds the list of
\* one of them
C24_OneListSurvives ==
    (\A p \in Callers : SucceededBy(p)) =>
        \E p \in Callers : data_file = SavedFile(args[p].draws)

\* C24: last writer wins: when two add_draw calls interleave their load and
\* save steps on the same store, the store after both complete equals the
\* list written by whichever call saved last, so a record whose add_draw
\* returned success can be absent from the final store.
C24_LastWriterWins ==
    /\ [][C24_SaveStep]_vars
    /\ []C24_OneListSurvives

\* both calls returned success and the record of the first is not in the
\* store
C24_Witness ==
    /\ \A p \in Callers : SucceededBy(p)
    /\ data_file.kind = "json"
    /\ args[1].new_draw.id \notin StoredIds(data_file)
    /\ args[2].new_draw.id \in StoredIds(data_file)

\* C25: starting from a store whose record ids are pairwise distinct, after
\* any sequence and any interleaving of add_draw calls (load, duplicate
\* check and save as separate steps) the persisted store never contains
\* two records with the same id.
C25_DistinctIds ==
    data_file.kind = "json" =>
        \A i, j \in DOMAIN data_file.draws :
            data_file.draws[i].id = data_file.draws[j].id => i = j

\* both callers added the same id at the same time, and the store holds
\* it once
C25_Witness ==
    /\ \A p \in Callers : SucceededBy(p)
    /\ args[1].new_draw.id = args[2].new_draw.id
    /\ data_file.kind = "json"
    /\ Len(data_file.draws) = 3
    /\ Cardinality(StoredIds(data_file)) = 3

\* the seven results as the fixed thresholds give them: they read the
\* combination, the sum range and the previous draw, and no other field of
\* the configuration
FixedPolicy(c, lo, hi, previous) ==
    [continuous |-> \E i \in 1..6 : c[i] + 1 = c[i + 1],
     zone3 |-> \A z \in {1..12, 13..25, 26..37} : Range(c) \cap z # {},
     zone4 |-> \A z \in {1..9, 10..18, 19..27, 28..37} : Range(c) \cap z # {},
     odd_even |-> Cardinality({n \in Range(c) : n % 2 = 1}) \in {3, 4},
     sum |-> lo <= SumSeq(c) /\ SumSeq(c) <= hi,
     last_digits |->
        \A d \in 0..9 : Cardinality({n \in Range(c) : n % 10 = d}) <= 2,
     pull |-> previous = {} \/ Cardinality(Range(c) \cap previous) <= 1]

C26_WitnessOdd ==
    /\ EvaluateReturned
    /\ config.odd_even_balance = <<0, 7>>
    /\ ~ret.odd_even.pass /\ ret.odd_even.odd \notin {3, 4}

\* the sum range is read: the narrow range rejects a sum the default range
\* accepts, with the loose thresholds as with the default ones
C26_WitnessSum ==
    /\ EvaluateReturned
    /\ config.pull_max = 7 /\ config.sum_min = 116
    /\ ret.sum.total \in 100..115
    /\ ~ret.sum.pass

\* the pass flags of an evaluation
PassFlags(evaluation) ==
    [name \in Range(FilterNames) \cup {"overall"} |->
        IF name = "overall" THEN evaluation.overall_pass
        ELSE evaluation[name].pass]

OrderFree == Range(FilterNames) \ {"continuous"}

\* the statement as given: every pass flag of a combination, in whatever
\* order it is passed, is the flag of the ascending tuple
C27_OrderIndependent_Original ==
    EvaluateReturned =>
        /\ PassFlags(ret) = PassFlags(evaluate_combination(Sorted(args.combo)))
        /\ _has_continuous(args.combo) = _has_continuous(Sorted(args.combo))
        /\ _apply_filters(args.combo) = _apply_filters(Sorted(args.combo))

\* C27: zone3, zone4, odd/even, sum, last digits and pull give the same
\* result whatever order the 7 numbers are passed in, the result on the
\* ascending tuple; the continuity predicate, and with it _apply_filters
\* and overall_pass, give the result of the ascending tuple when the
\* numbers are passed in ascending order, and in another order can only
\* turn a pass of the ascending tuple into a fail.
C27_OrderIndependent ==
    EvaluateReturned =>
        LET c == args.combo
            given == PassFlags(ret)
            sorted == PassFlags(evaluate_combination(Sorted(c)))
        IN  /\ \A name \in OrderFree : given[name] = sorted[name]
            /\ _check_zone3(c) = _check_zone3(Sorted(c))
            /\ _check_zone4(c) = _check_zone4(Sorted(c))
            /\ _check_odd_even(c) = _check_odd_even(Sorted(c))
            /\ _check_sum(c) = _check_sum(Sorted(c))
            /\ _check_last_digits(c) = _check_last_digits(Sorted(c))
            /\ _check_pull(c) = _check_pull(Sorted(c))
            /\ IsAscending(c) => given = sorted
            /\ given.continuous => sorted.continuous
            /\ given.overall => sorted.overall
            /\ _has_continuous(c) => _has_continuous(Sorted(c))
            /\ _apply_filters(c) => _apply_filters(Sorted(c))

\* a combination the filters accept in ascending order is rejected, for
\* continuity alone, when its numbers are passed in another order
C27_Witness ==
    /\ EvaluateReturned
    /\ ~IsAscending(args.combo)
    /\ \A name \in OrderFree : ret[name].pass
    /\ ~ret.continuous.pass /\ ~ret.overall_pass
    /\ _has_continuous(Sorted(args.combo))
    /\ _apply_filters(Sorted(args.combo))

IdentifyReturned == pc = "done" /\ args.handler = "identify_patterns"

TopReturned == pc = "done" /\ args.handler = "get_top_patterns"

\* C28: the result of every identify_patterns call is both returned and
\* cached: after any sequence of identify_patterns calls,
\* get_top_patterns(n) returns the first n entries of the list returned by
\* the most recent call (an empty list when that call was given fewer than
\* 3 draws and therefore returned no patterns).
C28_ReturnedAndCached ==
    /\ IdentifyReturned =>
        /\ recent_patterns = ret
        /\ Len(args.draws) < 3 => recent_patterns = <<>>
    /\ TopReturned =>
        ret = SubSeq(recent_patterns, 1,
                     IF args.n < Len(recent_patterns) THEN args.n
                     ELSE Len(recent_patterns))

\* what does hold: a call given 3 draws or more returns three patterns and
\* caches them, a call given fewer returns none and leaves the cache as it
\* is, and get_top_patterns returns the first n cached entries
C28_CachedWhenComputed ==
    /\ (IdentifyReturned /\ Len(args.draws) >= 3) =>
        Len(ret) = 3 /\ recent_patterns = ret
    /\ (IdentifyReturned /\ Len(args.draws) < 3) => ret = <<>>
    /\ TopReturned =>
        /\ Len(ret) = (IF args.n < Len(recent_patterns) THEN args.n
                       ELSE Len(recent_patterns))
        /\ \A i \in DOMAIN ret : ret[i] = recent_patterns[i]

\* the places of a list that hold the combination c
PlacesOf(list, c) == {k \in DOMAIN list : list[k] = c}

\* C29: for every list of combinations returned by generate_predictions,
\* create_predicted_draws (with or without scoring) returns exactly one
\* record per input combination, each record passes Loto7Draw.validate()
\* (7 distinct main numbers in 1..37, 2 distinct bonus numbers in 1..37
\* disjoint from main), and the ids of the returned records are pairwise
\* distinct, carrying positions 1..N in output order.
C29_OneValidRecordEach ==
    CreateReturned =>
        LET mains == [k \in DOMAIN ret |-> ret[k].main]
        IN  /\ Len(ret) = Len(args.predictions)
            /\ \A c \in Range(args.predictions) \cup Range(mains) :
                Cardinality(PlacesOf(mains, c))
                    = Cardinality(PlacesOf(args.predictions, c))
            /\ \A k \in DOMAIN ret :
                /\ ValidRecord(ret[k])
                /\ validate(ret[k])
                /\ IdNames(ret[k].id, args.next_draw_number, k)
            /\ \A j, k \in DOMAIN ret : ret[j].id = ret[k].id => j = k

\* three different combinations, scored: three records, the first of them
\* not the first of the input
C29_Witness ==
    /\ CreateReturned /\ args.include_scoring
    /\ Len(ret) = 3
    /\ Cardinality(Range(args.predictions)) = 3
    /\ ret[1].main # args.predictions[1]
    /\ Cardinality({ret[k].id : k \in DOMAIN ret}) = 3

\* the same without scoring
C29_WitnessUnscored ==
    /\ CreateReturned /\ ~args.include_scoring
    /\ Len(ret) = 3
    /\ Cardinality(Range(args.predictions)) = 3
    /\ Cardinality({ret[k].id : k \in DOMAIN ret}) = 3

PredictSucceeded ==
    pc = "done" /\ args.handler = "predict" /\ ret.success

\* the number in the id of the first record of the store, when it has one
LatestStoredNumber ==
    LET id == data_file.draws[1].id
    IN  DigitsValue(SubSeq(id, 2, Len(id) - 1))

LatestIsNumbered ==
    /\ data_file.kind = "json" /\ data_file.draws # <<>>
    /\ Len(data_file.draws[1].id) > 2
    /\ data_file.draws[1].id[1] = "dai"
    /\ IsDigits(SubSeq(data_file.draws[1].id, 2, Len(data_file.draws[1].id) - 1))

\* the response and every record id carry the draw number n
Targets(n) ==
    /\ ret.next_draw_number = n
    /\ \A k \in DOMAIN ret.draws : IdNames(ret.draws[k].id, n, k)

\* C30: the predict handler uses a next_draw_number supplied by the caller
\* as the target draw number of the response and of every returned record
\* id, for every supplied value and every store content; only when the
\* caller supplies none is the target derived as (number in the latest
\* stored draw's id) + 1.
C30_SuppliedNumberUsed ==
    PredictSucceeded =>
        IF ~args.supplied.isNone THEN Targets(args.supplied.value)
        ELSE LatestIsNumbered => Targets(LatestStoredNumber + 1)

\* what does hold: a supplied number other than 650 is the target, and so
\* is 650 when the store holds no numbered latest draw; with none supplied
\* the target is the latest number plus one, or 650
C30_SuppliedUnless650 ==
    PredictSucceeded =>
        IF LatestIsNumbered /\ (args.supplied.isNone \/ args.supplied.value = 650)
        THEN Targets(LatestStoredNumber + 1)
        ELSE Targets(IF args.supplied.isNone THEN 650 ELSE args.supplied.value)

====
